---- MODULE Spec2Model ----
(***************************************************************************)
(* Metrics analysis and forecasting engine of the OpenStack dashboard:     *)
(* analyze_metrics.py (MetricsAnalyzer) and forecast_usage.py              *)
(* (UsageForecaster).                                                      *)
(*                                                                         *)
(* A DataFrame is a sequence of rows; a row is a record whose domain is    *)
(* the table's set of columns.  A float cell is a record [k, v]: a finite  *)
(* number (k = "num"), NaN (k = "nan") or an infinity (k = "inf", v its    *)
(* sign).  Percentages are held in thousandths of a percent (Scale), so    *)
(* that round(2) is something that can lose information.  Arithmetic on    *)
(* finite numbers is exact; the binary rounding of IEEE doubles is not     *)
(* modelled.                                                               *)
(***************************************************************************)
EXTENDS Integers, Sequences, FiniteSets, TLC

VARIABLES
    pc,                \* position of the component under analysis
    df,                \* the table handed to the component
    derived,           \* result of calculate_utilization_metrics
    node_summary,      \* result of generate_node_summary
    capacity_analysis, \* result of generate_capacity_analysis
    anomalies,         \* result of generate_anomaly_detection
    forecasts,         \* the forecast table handed to the recommendation generator
    current_time,      \* datetime.now() read by generate_capacity_recommendations
    recommendations,   \* result of generate_capacity_recommendations
    store,             \* the sample store data/metrics.csv
    clock,             \* the wall clock, in seconds
    trends,            \* result of generate_time_series_analysis
    stamp,             \* the timestamp save_analysis puts in its file names
    analysis_dir,      \* the files of data/analysis
    result,            \* what run_analysis gave its caller
    run,               \* number of the run_analysis call under way
    completed,         \* the runs that returned True
    prophet_data,      \* result of prepare_prophet_data
    prophet,           \* what the forecasting library does with each pair's series
    history,           \* the recommendations of the forecasting runs that returned
    forecasts_dir,     \* the files of data/forecasts
    saved,             \* the batches save_metrics wrote, in order
    snapshots,         \* the metrics_<timestamp>.json files of data/
    sched_pc,          \* position of start_scheduler
    running,           \* the tasks executing: child processes and the in-process cleanup
    waiting,           \* the task the scheduler is blocked on, "" if none
    due,               \* the jobs whose next run time has come
    queue,             \* the jobs run_pending has still to run
    initial,           \* the tasks run_initial_tasks has attempted, in order
    ended              \* the last task that ended and how

\* the state of a whole run, untouched by the single components
runVars == <<store, clock, trends, stamp, analysis_dir, result, run, completed>>

\* the state of the forecasting side
forecastVars == <<prophet_data, prophet, history, forecasts_dir>>

\* the collector's side
storeVars == <<saved, snapshots>>

\* the scheduler's side
schedVars == <<sched_pc, running, waiting, due, queue, initial, ended>>

\* everything but the scheduler
engineVars == <<pc, df, derived, node_summary, capacity_analysis, anomalies,
                forecasts, current_time, recommendations, runVars, forecastVars, storeVars>>

vars == <<engineVars, schedVars>>

NoTask == [task |-> "", outcome |-> "none"]

\* no scheduler is followed
SchedIdle ==
    /\ sched_pc = "off"
    /\ running = {}
    /\ waiting = ""
    /\ due = {}
    /\ queue = <<>>
    /\ initial = <<>>
    /\ ended = NoTask

NoStore == [state |-> "missing", rows |-> <<>>]

ForecastIdle ==
    /\ prophet_data = <<>>
    /\ prophet = <<>>
    /\ history = <<>>
    /\ forecasts_dir = {}

\* what the collector wrote before the runs that are followed
StoreIdle ==
    /\ saved = IF store.rows = <<>> THEN <<>> ELSE <<store.rows>>
    /\ snapshots = {}

RunIdle ==
    /\ ForecastIdle
    /\ store = NoStore
    /\ StoreIdle
    /\ SchedIdle
    /\ clock = 0
    /\ trends = <<>>
    /\ stamp = 0
    /\ analysis_dir = {}
    /\ result = "none"
    /\ run = 0
    /\ completed = {}

----------------------------------------------------------------------------
(* Floats *)

\* thousandths of a percent per percent
Scale == 10 * 100

Num(x) == [k |-> "num", v |-> x]
NaN == [k |-> "nan", v |-> 0]
PosInf == [k |-> "inf", v |-> 1]
NegInf == [k |-> "inf", v |-> -1]

IsNum(a) == a.k = "num"
IsNaN(a) == a.k = "nan"
IsInf(a) == a.k = "inf"

\* floor division, also for a negative numerator (den > 0)
FloorDiv(num, den) == num \div den

\* a > c and a < c for a float a and a finite c: False on NaN
FGt(a, c) == \/ IsNum(a) /\ a.v > c
             \/ IsInf(a) /\ a.v > 0
FLt(a, c) == \/ IsNum(a) /\ a.v < c
             \/ IsInf(a) /\ a.v < 0

\* a - b
FSub(a, b) ==
    IF IsNaN(a) \/ IsNaN(b) THEN NaN
    ELSE IF IsInf(a) /\ IsInf(b) THEN (IF a.v = b.v THEN NaN ELSE a)
    ELSE IF IsInf(a) THEN a
    ELSE IF IsInf(b) THEN (IF b.v > 0 THEN NegInf ELSE PosInf)
    ELSE Num(a.v - b.v)

\* Series.fillna(0): only NaN is replaced, an infinity stays
FillNa0(a) == IF IsNaN(a) THEN Num(0) ELSE a

\* used / total * 100 on two float cells holding plain counts; the result is a
\* percentage in thousandths.  pandas division never raises: x/0 is +-inf and
\* 0/0 is NaN.
PctOf(used, total) ==
    IF IsNaN(used) \/ IsNaN(total) THEN NaN
    ELSE IF total.v = 0
         THEN (IF used.v = 0 THEN NaN ELSE IF used.v > 0 THEN PosInf ELSE NegInf)
         ELSE Num(FloorDiv(used.v * 100 * Scale, total.v))

\* the columns of a table
Columns(t) == IF t = <<>> THEN {} ELSE DOMAIN t[1]

----------------------------------------------------------------------------
(* collect_metrics.py: the utilization cells the collector stores *)

CollectorPct(used, total) ==
    IF total > 0 THEN Num(FloorDiv(used * 100 * Scale, total)) ELSE Num(0)

----------------------------------------------------------------------------
(* MetricsAnalyzer.calculate_utilization_metrics *)

UtilColumn(r, cols, name, used, total) ==
    IF name \in cols THEN r[name] ELSE FillNa0(PctOf(r[used], r[total]))

DeriveRow(r, cols) ==
    LET cpu  == UtilColumn(r, cols, "cpu_utilization", "vcpus_used", "vcpus_total")
        mem  == UtilColumn(r, cols, "memory_utilization", "memory_used_mb", "memory_total_mb")
        disk == UtilColumn(r, cols, "disk_utilization", "disk_used_gb", "disk_total_gb")
        ceff == FillNa0(PctOf(r.total_instance_vcpus, r.vcpus_total))
        meff == FillNa0(PctOf(r.total_instance_memory_mb, r.memory_total_mb))
        base == [f \in cols \cup {"cpu_utilization", "memory_utilization", "disk_utilization",
                                  "cpu_efficiency", "memory_efficiency",
                                  "cpu_waste", "memory_waste"} |->
                    IF f \in cols THEN r[f] ELSE NaN]
    IN [base EXCEPT !.cpu_utilization = cpu,
                    !.memory_utilization = mem,
                    !.disk_utilization = disk,
                    !.cpu_efficiency = ceff,
                    !.memory_efficiency = meff,
                    !.cpu_waste = FSub(cpu, ceff),
                    !.memory_waste = FSub(mem, meff)]

\* df['total_instance_vcpus'] on a table without that column raises KeyError,
\* which nothing in calculate_utilization_metrics catches
calculate_utilization_metrics(t) ==
    LET cols == Columns(t) IN
    IF {"total_instance_vcpus", "total_instance_memory_mb"} \subseteq cols
    THEN [status |-> "ok", rows |-> [i \in 1..Len(t) |-> DeriveRow(t[i], cols)]]
    ELSE [status |-> "KeyError", rows |-> <<>>]

NoResult == [status |-> "none", rows |-> <<>>]

----------------------------------------------------------------------------
(* Specification SpecUtil: one stored sample through the utilization calculator *)

RawColumns == {"timestamp", "node", "vcpus_used", "vcpus_total", "memory_used_mb",
               "memory_total_mb", "disk_used_gb", "disk_total_gb"}
InstColumns == {"total_instance_vcpus", "total_instance_memory_mb"}
UtilColumns == {"cpu_utilization", "memory_utilization", "disk_utilization"}

\* the three stored schemas: what the collector writes, a stream without the
\* utilization columns, and the stream of run_tests.py (raw fields only)
Schemas == {RawColumns \cup InstColumns \cup UtilColumns,
            RawColumns \cup InstColumns,
            RawColumns}

\* largest count drawn for a used or allocated field
MaxUsed == 2

CpuPairs == {<<u, t>> : u \in 0..MaxUsed, t \in {0, 4}}
MemPairs == {<<u, t>> : u \in {0, 1024}, t \in {0, 2048}}
DiskPairs == {<<u, t>> : u \in {0, 10}, t \in {0, 40}}

StoredRow(cols, c, m, d, iv, im) ==
    LET full == [timestamp |-> 1, node |-> "a",
                 vcpus_used |-> Num(c[1]), vcpus_total |-> Num(c[2]),
                 memory_used_mb |-> Num(m[1]), memory_total_mb |-> Num(m[2]),
                 disk_used_gb |-> Num(d[1]), disk_total_gb |-> Num(d[2]),
                 total_instance_vcpus |-> Num(iv),
                 total_instance_memory_mb |-> Num(im),
                 cpu_utilization |-> CollectorPct(c[1], c[2]),
                 memory_utilization |-> CollectorPct(m[1], m[2]),
                 disk_utilization |-> CollectorPct(d[1], d[2])]
    IN [f \in cols |-> full[f]]

Idle ==
    /\ derived = NoResult
    /\ node_summary = <<>>
    /\ capacity_analysis = <<>>
    /\ anomalies = <<>>
    /\ forecasts = <<>>
    /\ current_time = 0
    /\ recommendations = <<>>
    /\ RunIdle

InitUtil ==
    /\ pc = "loaded"
    /\ \E cols \in Schemas, c \in CpuPairs, m \in MemPairs, d \in DiskPairs,
          iv \in {0, 2}, im \in {0, 512} :
          df = <<StoredRow(cols, c, m, d, iv, im)>>
    /\ Idle

CalculateUtilizationMetrics ==
    /\ pc = "loaded"
    /\ derived' = calculate_utilization_metrics(df)
    /\ pc' = "derived"
    /\ UNCHANGED <<df, node_summary, capacity_analysis, anomalies,
                   forecasts, current_time, recommendations>>
    /\ UNCHANGED forecastVars
    /\ UNCHANGED runVars
    /\ UNCHANGED storeVars
    /\ UNCHANGED schedVars

NextUtil == CalculateUtilizationMetrics

SpecUtil == InitUtil /\ [][NextUtil]_vars

\* C1: whenever a total is 0, the derived utilization and efficiency over that
\* total are 0, whatever the numerator, and never an infinity or NaN
ZeroTotalYieldsZero ==
    (pc = "derived" /\ derived.status = "ok") =>
        \A i \in 1..Len(derived.rows) :
            LET r == derived.rows[i] IN
            /\ r.vcpus_total = Num(0) =>
                   r.cpu_utilization = Num(0) /\ r.cpu_efficiency = Num(0)
            /\ r.memory_total_mb = Num(0) =>
                   r.memory_utilization = Num(0) /\ r.memory_efficiency = Num(0)
            /\ r.disk_total_gb = Num(0) => r.disk_utilization = Num(0)

----------------------------------------------------------------------------
(* Aggregation helpers *)

\* the order in which groupby('node') lists its (sorted) keys
NodeOrder == <<"a", "b">>

\* the rows of t whose node is n, in the order of t: df[df['node'] == n]
NodeRows(t, n) == SelectSeq(t, LAMBDA r : r.node = n)

\* the nodes of t, sorted: the keys of df.groupby('node')
GroupKeys(t) == SelectSeq(NodeOrder, LAMBDA n : \E i \in 1..Len(t) : t[i].node = n)

RECURSIVE SumSeq(_)
SumSeq(s) == IF s = <<>> THEN 0 ELSE Head(s) + SumSeq(Tail(s))

\* the finite values of column c in rows, in order
FiniteVals(rows, c) ==
    LET kept == SelectSeq(rows, LAMBDA r : IsNum(r[c]))
    IN [i \in 1..Len(kept) |-> kept[i][c].v]

\* num/den rounded to the nearest integer, ties to even (numpy's rint); den > 0
RoundHalfEven(num, den) ==
    LET q == FloorDiv(num, den)
        r == num - q * den
    IN IF 2 * r < den THEN q
       ELSE IF 2 * r > den THEN q + 1
       ELSE IF q % 2 = 0 THEN q ELSE q + 1

\* round(num/den, 2) of a percentage held in thousandths
Round2(num, den) == (Scale \div 100) * RoundHalfEven(num, den * (Scale \div 100))

\* the mean of a column's cells when one of them is infinite: that infinity,
\* or NaN when both signs occur
InfMean(rows, c) ==
    IF \E i, j \in 1..Len(rows) : IsInf(rows[i][c]) /\ IsInf(rows[j][c])
                                  /\ rows[i][c].v # rows[j][c].v
    THEN NaN
    ELSE LET i == CHOOSE k \in 1..Len(rows) : IsInf(rows[k][c]) IN rows[i][c]

\* GroupBy.mean of column c followed by .round(2): NaN cells are skipped; an
\* empty group of values gives NaN
MeanRound2(rows, c) ==
    LET vs == FiniteVals(rows, c)
    IN IF \E i \in 1..Len(rows) : IsInf(rows[i][c]) THEN InfMean(rows, c)
       ELSE IF Len(vs) = 0 THEN NaN
       ELSE Num(Round2(SumSeq(vs), Len(vs)))

----------------------------------------------------------------------------
(* MetricsAnalyzer.generate_node_summary *)

HighRiskPct == 80
MediumRiskPct == 60

\* lambda x: 'High' if x > 80 else 'Medium' if x > 60 else 'Low'
Risk(x) ==
    IF FGt(x, HighRiskPct * Scale) THEN "High"
    ELSE IF FGt(x, MediumRiskPct * Scale) THEN "Medium"
    ELSE "Low"

OverallRiskAllHigh(c, m, d) ==
    IF \A r \in {c, m, d} : r = "High" THEN "High"
    ELSE IF \E r \in {c, m, d} : r = "Medium" THEN "Medium"
    ELSE "Low"

OverallRisk(c, m, d) ==
    IF \E r \in {c, m, d} : r = "High" THEN "High"
    ELSE IF \E r \in {c, m, d} : r = "Medium" THEN "Medium"
    ELSE "Low"

SummaryRow(t, n) ==
    LET rows == NodeRows(t, n)
        cm == MeanRound2(rows, "cpu_utilization")
        mm == MeanRound2(rows, "memory_utilization")
        dm == MeanRound2(rows, "disk_utilization")
    IN [node |-> n,
        cpu_utilization_mean |-> cm,
        memory_utilization_mean |-> mm,
        disk_utilization_mean |-> dm,
        cpu_risk |-> Risk(cm),
        memory_risk |-> Risk(mm),
        disk_risk |-> Risk(dm),
        overall_risk |-> OverallRisk(Risk(cm), Risk(mm), Risk(dm))]

generate_node_summary(t) ==
    LET keys == GroupKeys(t)
    IN [i \in 1..Len(keys) |-> SummaryRow(t, keys[i])]

----------------------------------------------------------------------------
(* Specification SpecSummary: a derived window through the node summary *)

\* most samples drawn for one node of the summary window
MaxSamples == 3

\* utilization values (thousandths of a percent) on and around the risk thresholds
SummaryVals == {0, 60004, 80000, 80004, 95000}
SummaryFlat == {50000, 70000, 90000}

UtilRow(n, ts, c, m, d) ==
    [timestamp |-> ts, node |-> n,
     cpu_utilization |-> c, memory_utilization |-> m, disk_utilization |-> d]

InitSummary ==
    /\ pc = "derived"
    /\ \E n \in 1..MaxSamples :
       \E cs \in [1..n -> SummaryVals], m \in SummaryFlat, d \in SummaryFlat,
          withB \in BOOLEAN :
          df = [i \in 1..n |-> UtilRow("a", i, Num(cs[i]), Num(m), Num(d))]
               \o (IF withB THEN <<UtilRow("b", n + 1, Num(95000), Num(0), Num(0))>>
                   ELSE <<>>)
    /\ Idle

GenerateNodeSummary ==
    /\ pc = "derived"
    /\ node_summary' = generate_node_summary(df)
    /\ pc' = "summarised"
    /\ UNCHANGED <<df, derived, capacity_analysis, anomalies,
                   forecasts, current_time, recommendations>>
    /\ UNCHANGED forecastVars
    /\ UNCHANGED runVars
    /\ UNCHANGED storeVars
    /\ UNCHANGED schedVars

NextSummary == GenerateNodeSummary

SpecSummary == InitSummary /\ [][NextSummary]_vars

\* the exact mean of column c over node n's samples is > bound percent
ExactMeanAbove(n, c, bound) ==
    LET vs == FiniteVals(NodeRows(df, n), c)
    IN SumSeq(vs) > bound * Scale * Len(vs)

TierOfExactMean(n, c) ==
    IF ExactMeanAbove(n, c, 80) THEN "High"
    ELSE IF ExactMeanAbove(n, c, 60) THEN "Medium"
    ELSE "Low"

\* C2: each per-metric risk of the node summary is the tier of the exact mean
\* of the node's samples (High > 80, Medium > 60, Low otherwise)
RiskFollowsExactMean ==
    pc = "summarised" =>
        \A i \in 1..Len(node_summary) :
            LET s == node_summary[i] IN
            /\ s.cpu_risk = TierOfExactMean(s.node, "cpu_utilization")
            /\ s.memory_risk = TierOfExactMean(s.node, "memory_utilization")
            /\ s.disk_risk = TierOfExactMean(s.node, "disk_utilization")

\* C3: overall_risk is High iff some metric risk is High, Low iff all three
\* are Low, and Medium otherwise
OverallRiskIsWorstCase ==
    pc = "summarised" =>
        \A i \in 1..Len(node_summary) :
            LET s == node_summary[i]
                rs == <<s.cpu_risk, s.memory_risk, s.disk_risk>>
                anyHigh == \E j \in 1..3 : rs[j] = "High"
                allLow == \A j \in 1..3 : rs[j] = "Low"
            IN /\ (s.overall_risk = "High") <=> anyHigh
               /\ (s.overall_risk = "Low") <=> allLow
               /\ (s.overall_risk = "Medium") <=> (~anyHigh /\ ~allLow)
               /\ s.overall_risk \in {"High", "Medium", "Low"}

\* a summary holding a node that is High through one metric only, and one
\* that is Medium with a Low metric
OverallRiskWitness ==
    /\ pc = "summarised"
    /\ \E i \in 1..Len(node_summary) :
          /\ node_summary[i].overall_risk = "High"
          /\ node_summary[i].cpu_risk = "Low"
          /\ node_summary[i].memory_risk = "Medium"
          /\ node_summary[i].disk_risk = "High"
    /\ \E i \in 1..Len(node_summary) :
          /\ node_summary[i].overall_risk = "High"
          /\ node_summary[i].node = "b"

----------------------------------------------------------------------------
(* MetricsAnalyzer.generate_anomaly_detection *)

RollingWindow == 24

Min(a, b) == IF a < b THEN a ELSE b
Max(a, b) == IF a > b THEN a ELSE b

RECURSIVE Dedup(_, _)
Dedup(s, seen) ==
    IF s = <<>> THEN <<>>
    ELSE IF Head(s) \in seen THEN Dedup(Tail(s), seen)
    ELSE <<Head(s)>> \o Dedup(Tail(s), seen \cup {Head(s)})

\* df['node'].unique(): the nodes in order of first appearance
UniqueNodes(t) == Dedup([i \in 1..Len(t) |-> t[i].node], {})

RECURSIVE SumSq(_)
SumSq(s) == IF s = <<>> THEN 0 ELSE Head(s) * Head(s) + SumSq(Tail(s))

\* the observations of .rolling(window=w, min_periods=1) at row i: the finite
\* cells of column c among the trailing w rows, row i included
RollingObs(rows, c, i, w) == FiniteVals(SubSeq(rows, Max(1, i - w + 1), i), c)

RECURSIVE Gcd(_, _)
Gcd(a, b) == IF b = 0 THEN a ELSE Gcd(b, a % b)

RECURSIVE GcdSeq(_)
\* the greatest common divisor of the values of s, 0 when all are 0
GcdSeq(s) == IF s = <<>> THEN 0 ELSE Gcd(Head(s), GcdSeq(Tail(s)))

\* |v - mean(obs)| > sigmas * std(obs), std with ddof = 1, compared on squares.
\* With fewer than 2 observations the rolling std is NaN and the comparison False.
\* The comparison does not change when every value is divided by a common
\* divisor, which keeps the products small.
DeviatesBy(v, obs, sigmas) ==
    LET k == Len(obs)
        g == IF GcdSeq(<<v>> \o obs) = 0 THEN 1 ELSE GcdSeq(<<v>> \o obs)
        x == v \div g
        xs == [i \in 1..k |-> obs[i] \div g]
        S == SumSeq(xs)
        Q == SumSq(xs)
    IN /\ k >= 2
       /\ (k - 1) * (k * x - S) * (k * x - S) > sigmas * sigmas * k * (k * Q - S * S)

\* (x > mean + 2*std) | (x < mean - 2*std)
IsAnomalyWindowBefore(rows, c, i, w) ==
    LET x == rows[i][c]
        obs == FiniteVals(SubSeq(rows, Max(1, i - w), i - 1), c)
    IN /\ IsNum(x)
       /\ DeviatesBy(x.v, obs, 2)

IsAnomalyNonStrict(rows, c, i, w) ==
    LET x == rows[i][c]
        obs == RollingObs(rows, c, i, w)
        k == Len(obs)
        S == SumSeq(obs)
        Q == SumSq(obs)
    IN /\ IsNum(x)
       /\ k >= 2
       /\ (k - 1) * (k * x.v - S) * (k * x.v - S) >= 4 * k * (k * Q - S * S)

IsAnomaly(rows, c, i, w) ==
    LET x == rows[i][c]
        obs == RollingObs(rows, c, i, w)
        k == Len(obs)
        S == SumSeq(obs)
    IN /\ IsNum(x)
       /\ \/ k * x.v > S /\ DeviatesBy(x.v, obs, 2)
          \/ k * x.v < S /\ DeviatesBy(x.v, obs, 2)

\* 'High' if abs(x - mean) > 3*std else 'Medium'
SeverityFourSigma(rows, c, i, w) ==
    IF DeviatesBy(rows[i][c].v, RollingObs(rows, c, i, w), 4) THEN "High" ELSE "Medium"

Severity(rows, c, i, w) ==
    IF DeviatesBy(rows[i][c].v, RollingObs(rows, c, i, w), 3) THEN "High" ELSE "Medium"

AnomalyRecord(rows, c, i, w) ==
    [timestamp |-> rows[i].timestamp,
     node |-> rows[i].node,
     metric |-> c,
     value |-> Round2(rows[i][c].v, 1),
     severity |-> Severity(rows, c, i, w)]

\* the anomalies of one metric of one node, in row order
MetricAnomalies(rows, c) ==
    LET w == Min(RollingWindow, Len(rows))
        hit == SelectSeq([i \in 1..Len(rows) |-> i],
                         LAMBDA i : IsAnomaly(rows, c, i, w))
    IN [j \in 1..Len(hit) |-> AnomalyRecord(rows, c, hit[j], w)]

NodeAnomalies(t, n) ==
    MetricAnomalies(NodeRows(t, n), "cpu_utilization")
        \o MetricAnomalies(NodeRows(t, n), "memory_utilization")

RECURSIVE ConcatNodes(_, _)
ConcatNodes(t, nodes) ==
    IF nodes = <<>> THEN <<>>
    ELSE NodeAnomalies(t, Head(nodes)) \o ConcatNodes(t, Tail(nodes))

generate_anomaly_detection(t) == ConcatNodes(t, UniqueNodes(t))

----------------------------------------------------------------------------
(* Specification SpecAnomaly: a derived window through the anomaly detector *)

\* most samples drawn for the node whose series is varied
MaxSeries == 26

\* A series of n samples at Flat, but `spike` at position p (p = 0: nowhere)
\* and `bump` at position p - gap (gap = 0 or p - gap < 1: nowhere)
Flat == 40
SpikeVals == {60, 10}
Patterns == {<<0, Flat>>, <<1, 43>>, <<7, 60>>}

SeriesOf(n, p, spike, pat) ==
    [i \in 1..n |-> IF i = p THEN spike
                    ELSE IF pat[1] > 0 /\ i = p - pat[1] THEN pat[2]
                    ELSE Flat]

\* node b: two samples, the first before all of node a's and the second after
\* node a's third
Interleave(rowsA, withB) ==
    IF ~withB THEN rowsA
    ELSE LET b1 == UtilRow("b", 0, Num(90), Num(5), Num(5))
             b2 == UtilRow("b", 1000, Num(5), Num(90), Num(5))
             cut == Min(3, Len(rowsA))
         IN <<b1>> \o SubSeq(rowsA, 1, cut) \o <<b2>> \o SubSeq(rowsA, cut + 1, Len(rowsA))

InitAnomaly ==
    /\ pc = "derived"
    /\ \E n \in 1..MaxSeries :
       \E p \in 0..n, spike \in SpikeVals, pat \in Patterns,
          memSpike \in BOOLEAN, withB \in BOOLEAN :
          /\ p = 0 => (spike = 60 /\ pat[1] = 0)
          /\ LET cs == SeriesOf(n, p, spike, pat)
                 rowsA == [i \in 1..n |->
                             UtilRow("a", i, Num(cs[i]),
                                     Num(IF memSpike /\ i = n THEN 80 ELSE 30),
                                     Num(IF i = n THEN 90 ELSE 20))]
             IN df = Interleave(rowsA, withB)
    /\ Idle

GenerateAnomalyDetection ==
    /\ pc = "derived"
    /\ anomalies' = generate_anomaly_detection(df)
    /\ pc' = "analysed"
    /\ UNCHANGED <<df, derived, node_summary, capacity_analysis,
                   forecasts, current_time, recommendations>>
    /\ UNCHANGED forecastVars
    /\ UNCHANGED runVars
    /\ UNCHANGED storeVars
    /\ UNCHANGED schedVars

NextAnomaly == GenerateAnomalyDetection

SpecAnomaly == InitAnomaly /\ [][NextAnomaly]_vars

(* The claims' own reading of the detector, on the series of one node *)

AnomalyMetrics == {"cpu_utilization", "memory_utilization"}

\* the values of column c over node n's samples, in stored order
SeriesVals(n, c) == FiniteVals(NodeRows(df, n), c)

\* the trailing min(24, N) samples of vals up to and including position i
TrailingWindow(vals, i) ==
    SubSeq(vals, Max(1, i - Min(24, Len(vals)) + 1), i)

RECURSIVE SqDev(_, _, _)
\* the sum over the window of (k*x - S)^2, i.e. k^2 times the squared deviations
SqDev(win, k, S) ==
    IF win = <<>> THEN 0
    ELSE (k * Head(win) - S) * (k * Head(win) - S) + SqDev(Tail(win), k, S)

\* vals[i] is more than `sigmas` sample standard deviations from the mean of
\* its trailing window
OutsideBand(vals, i, sigmas) ==
    LET win == TrailingWindow(vals, i)
        k == Len(win)
        S == SumSeq(win)
    IN (k - 1) * (k * vals[i] - S) * (k * vals[i] - S)
           > sigmas * sigmas * SqDev(win, k, S)

\* the anomaly records of node n and metric c
Reported(n, c) ==
    SelectSeq(anomalies, LAMBDA a : a.node = n /\ a.metric = c)

ReportedAt(n, c, ts) ==
    SelectSeq(anomalies, LAMBDA a : a.node = n /\ a.metric = c /\ a.timestamp = ts)

DfNodes == {df[i].node : i \in 1..Len(df)}

IsConstant(vals) == \A i, j \in 1..Len(vals) : vals[i] = vals[j]

\* C5: a node whose cpu and memory utilization are constant over its 2 or more
\* samples gets no anomaly, and no node's first sample is an anomaly
ConstantSeriesNoAnomaly ==
    pc = "analysed" =>
        \A n \in DfNodes :
            LET rows == NodeRows(df, n) IN
            /\ (/\ Len(rows) >= 2
                /\ IsConstant(SeriesVals(n, "cpu_utilization"))
                /\ IsConstant(SeriesVals(n, "memory_utilization")))
               => \A j \in 1..Len(anomalies) : anomalies[j].node # n
            /\ \A j \in 1..Len(anomalies) :
                  anomalies[j].node = n => anomalies[j].timestamp # rows[1].timestamp

\* the detector has run over a node with a full window of constant cpu and
\* memory samples, next to a node whose samples vary
ConstantSeriesWitness ==
    /\ pc = "analysed"
    /\ Len(NodeRows(df, "a")) >= RollingWindow
    /\ IsConstant(SeriesVals("a", "cpu_utilization"))
    /\ IsConstant(SeriesVals("a", "memory_utilization"))
    /\ ~IsConstant(SeriesVals("b", "cpu_utilization"))
    /\ Len(NodeRows(df, "b")) = 2
    /\ anomalies = <<>>

\* vals is flat except for the one sample at position p
SingleOutlierAt(vals, p) ==
    /\ p \in 1..Len(vals)
    /\ \A i, j \in (1..Len(vals)) \ {p} : vals[i] = vals[j]
    /\ \A i \in (1..Len(vals)) \ {p} : vals[i] # vals[p]

\* the detector reports, for node n and metric c, exactly the sample at
\* position p, with severity sev
ReportsOnly(n, c, p, sev) ==
    /\ Len(Reported(n, c)) = 1
    /\ Reported(n, c)[1].timestamp = NodeRows(df, n)[p].timestamp
    /\ Reported(n, c)[1].severity = sev

\* C6 as stated: wherever the single outlier of a flat series of 24 or more
\* samples sits, exactly that sample is reported, with severity High
OutlierAnywhereIsHigh ==
    pc = "analysed" =>
        \A n \in DfNodes, c \in AnomalyMetrics :
            LET vals == SeriesVals(n, c) IN
            \A p \in 1..Len(vals) :
                (Len(vals) >= 24 /\ SingleOutlierAt(vals, p))
                    => ReportsOnly(n, c, p, "High")

\* C6 amended: the single outlier of a flat series of 24 or more samples is
\* the only anomaly and High when it is the node's 11th sample or later, the
\* only anomaly and Medium when it is the 6th to 10th, and not reported (nor
\* is anything else) when it is among the first 5
OutlierByPosition ==
    pc = "analysed" =>
        \A n \in DfNodes, c \in AnomalyMetrics :
            LET vals == SeriesVals(n, c) IN
            \A p \in 1..Len(vals) :
                (Len(vals) >= 24 /\ SingleOutlierAt(vals, p)) =>
                    /\ p >= 11 => ReportsOnly(n, c, p, "High")
                    /\ p \in 6..10 => ReportsOnly(n, c, p, "Medium")
                    /\ p <= 5 => Reported(n, c) = <<>>

\* the detector has run over a flat cpu series of more than 24 samples whose
\* single outlier sits in the middle, and reported exactly it, as High
OutlierWitness ==
    /\ pc = "analysed"
    /\ Len(SeriesVals("a", "cpu_utilization")) > 24
    /\ SingleOutlierAt(SeriesVals("a", "cpu_utilization"), 12)
    /\ ReportsOnly("a", "cpu_utilization", 12, "High")

----------------------------------------------------------------------------
(* UsageForecaster.generate_capacity_recommendations *)

CriticalMaxPct == 90
HighMaxPct == 80
MediumAvgPct == 70

\* forecasts[forecasts['timestamp'] > current_time]
FutureForecastsInclusive(t, now) == SelectSeq(t, LAMBDA r : r.timestamp >= now)

FutureForecasts(t, now) == SelectSeq(t, LAMBDA r : r.timestamp > now)

\* Series.unique() of a column of a table
UniqueOf(t, c) == Dedup([i \in 1..Len(t) |-> t[i][c]], {})

RECURSIVE MaxSeq(_)
MaxSeq(s) == IF Len(s) = 1 THEN Head(s) ELSE Max(Head(s), MaxSeq(Tail(s)))

Rec(n, m, sev) == [node |-> n, metric |-> m, severity |-> sev]

\* the if / elif / elif of one (node, metric) pair over its future rows
PairRecommendationsNoElif(rows, n, m) ==
    LET vs == [i \in 1..Len(rows) |-> rows[i].forecast]
        mx == MaxSeq(vs)
    IN (IF mx > CriticalMaxPct * Scale THEN <<Rec(n, m, "Critical")>> ELSE <<>>)
       \o (IF mx > HighMaxPct * Scale THEN <<Rec(n, m, "High")>> ELSE <<>>)
       \o (IF SumSeq(vs) > MediumAvgPct * Scale * Len(vs) /\ mx <= HighMaxPct * Scale
           THEN <<Rec(n, m, "Medium")>> ELSE <<>>)

PairRecommendations(rows, n, m) ==
    LET vs == [i \in 1..Len(rows) |-> rows[i].forecast]
        max_forecast == MaxSeq(vs)
    IN IF max_forecast > CriticalMaxPct * Scale THEN <<Rec(n, m, "Critical")>>
       ELSE IF max_forecast > HighMaxPct * Scale THEN <<Rec(n, m, "High")>>
       ELSE IF SumSeq(vs) > MediumAvgPct * Scale * Len(vs) THEN <<Rec(n, m, "Medium")>>
       ELSE <<>>

RECURSIVE MetricLoop(_, _, _)
MetricLoop(node_forecasts, n, metrics) ==
    IF metrics = <<>> THEN <<>>
    ELSE PairRecommendations(
             SelectSeq(node_forecasts, LAMBDA r : r.metric = Head(metrics)),
             n, Head(metrics))
         \o MetricLoop(node_forecasts, n, Tail(metrics))

RECURSIVE NodeLoop(_, _)
NodeLoop(future, nodes) ==
    IF nodes = <<>> THEN <<>>
    ELSE LET node_forecasts == NodeRows(future, Head(nodes))
         IN MetricLoop(node_forecasts, Head(nodes), UniqueOf(node_forecasts, "metric"))
            \o NodeLoop(future, Tail(nodes))

generate_capacity_recommendations(t, now) ==
    IF Len(t) = 0 THEN <<>>
    ELSE LET future == FutureForecasts(t, now)
         IN NodeLoop(future, UniqueOf(future, "node"))

----------------------------------------------------------------------------
(* Specification SpecRecs: a forecast table through the recommendation generator *)

\* most forecast rows drawn for the pair whose series is varied; the clock is
\* drawn from 0..MaxHorizon
MaxHorizon == 3

ForecastVals == {60000, 75000, 85000, 95000}

\* a second pair with a single row at time 2
SecondPairs == {<<"a", "memory_utilization">>, <<"b", "cpu_utilization">>}

ForecastRow(n, m, ts, y) == [node |-> n, metric |-> m, timestamp |-> ts, forecast |-> y]

InitRecs ==
    /\ pc = "forecast"
    /\ \E h \in 1..MaxHorizon :
       \E ys \in [1..h -> ForecastVals], withSecond \in BOOLEAN,
          sp \in SecondPairs, y2 \in {75000, 95000} :
          forecasts = [i \in 1..h |-> ForecastRow("a", "cpu_utilization", i, ys[i])]
                      \o (IF withSecond THEN <<ForecastRow(sp[1], sp[2], 2, y2)>>
                          ELSE <<>>)
    /\ current_time \in 0..MaxHorizon
    /\ df = <<>>
    /\ derived = NoResult
    /\ node_summary = <<>>
    /\ capacity_analysis = <<>>
    /\ anomalies = <<>>
    /\ recommendations = <<>>
    /\ RunIdle

GenerateCapacityRecommendations ==
    /\ pc = "forecast"
    /\ recommendations' = generate_capacity_recommendations(forecasts, current_time)
    /\ pc' = "recommended"
    /\ UNCHANGED <<df, derived, node_summary, capacity_analysis, anomalies,
                   forecasts, current_time>>
    /\ UNCHANGED forecastVars
    /\ UNCHANGED runVars
    /\ UNCHANGED storeVars
    /\ UNCHANGED schedVars

NextRecs == GenerateCapacityRecommendations

SpecRecs == InitRecs /\ [][NextRecs]_vars

(* The claims' own reading of the generator *)

ForecastPairs == {<<forecasts[i].node, forecasts[i].metric>> : i \in 1..Len(forecasts)}

\* the forecast values of pair pr at timestamps strictly after the clock
Horizon(pr) ==
    {i \in 1..Len(forecasts) : /\ forecasts[i].node = pr[1]
                               /\ forecasts[i].metric = pr[2]
                               /\ forecasts[i].timestamp > current_time}

HorizonMaxAbove(pr, pct) == \E i \in Horizon(pr) : forecasts[i].forecast > pct * Scale

RECURSIVE SumOver(_)
SumOver(I) ==
    IF I = {} THEN 0
    ELSE LET i == CHOOSE j \in I : TRUE IN forecasts[i].forecast + SumOver(I \ {i})

HorizonMeanAbove(pr, pct) ==
    Horizon(pr) # {} /\ SumOver(Horizon(pr)) > pct * Scale * Cardinality(Horizon(pr))

RecsOf(pr) == SelectSeq(recommendations, LAMBDA r : r.node = pr[1] /\ r.metric = pr[2])

\* C7: at most one recommendation per (node, metric); it is Critical when the
\* horizon maximum is > 90, High when it is > 80 and <= 90, Medium when it is
\* <= 80 and the mean is > 70; a maximum of exactly 95 gives exactly one
\* recommendation, Critical
OneRecommendationByPriority ==
    pc = "recommended" =>
        \A pr \in ForecastPairs :
            /\ Len(RecsOf(pr)) <= 1
            /\ \A j \in 1..Len(RecsOf(pr)) :
                  RecsOf(pr)[j].severity =
                      (IF HorizonMaxAbove(pr, 90) THEN "Critical"
                       ELSE IF HorizonMaxAbove(pr, 80) THEN "High"
                       ELSE "Medium")
            /\ (/\ \E i \in Horizon(pr) : forecasts[i].forecast = 95 * Scale
                /\ ~HorizonMaxAbove(pr, 95))
               => (Len(RecsOf(pr)) = 1 /\ RecsOf(pr)[1].severity = "Critical")

\* the generator has run on a pair whose horizon maximum is exactly 95 and
\* whose mean is above 70, next to a pair that got a High or Medium alert
PriorityWitness ==
    /\ pc = "recommended"
    /\ \E pr \in ForecastPairs :
          /\ \E i \in Horizon(pr) : forecasts[i].forecast = 95 * Scale
          /\ \E i \in Horizon(pr) : forecasts[i].forecast = 85 * Scale
          /\ HorizonMeanAbove(pr, 70)
          /\ Len(RecsOf(pr)) = 1
    /\ \E j \in 1..Len(recommendations) : recommendations[j].severity = "Critical"
    /\ Len(recommendations) = 2

\* C8: a pair gets a recommendation iff, over its rows strictly after the
\* clock, the maximum is > 80 or the mean is > 70; pairs without such rows get
\* none, and every recommendation belongs to a pair of the table
RecommendationIffThresholdCrossed ==
    pc = "recommended" =>
        /\ \A pr \in ForecastPairs :
              (RecsOf(pr) # <<>>) <=> (HorizonMaxAbove(pr, 80) \/ HorizonMeanAbove(pr, 70))
        /\ \A j \in 1..Len(recommendations) :
              <<recommendations[j].node, recommendations[j].metric>> \in ForecastPairs
        /\ (\A pr \in ForecastPairs : Horizon(pr) = {}) => recommendations = <<>>

\* the generator has run on a table where a row at the clock's own time is
\* above 90 and its pair got nothing, while another pair got an alert
ThresholdWitness ==
    /\ pc = "recommended"
    /\ \E i \in 1..Len(forecasts) :
          /\ forecasts[i].timestamp = current_time
          /\ forecasts[i].forecast > 90 * Scale
          /\ RecsOf(<<forecasts[i].node, forecasts[i].metric>>) = <<>>
          /\ Horizon(<<forecasts[i].node, forecasts[i].metric>>) # {}
    /\ recommendations # <<>>

----------------------------------------------------------------------------
(* MetricsAnalyzer.generate_capacity_analysis *)

AddCapacityPct == 80
UnderutilizedPct == 20

CpuAdd == "Consider adding more CPU capacity or migrating instances"
CpuUnder == "CPU capacity is underutilized - consider consolidating instances"
MemAdd == "Consider adding more memory or migrating instances"
MemUnder == "Memory capacity is underutilized - consider consolidating instances"
DiskAdd == "Consider adding more disk storage or cleaning up unused data"
DiskUnder == "Disk capacity is underutilized"
WellBalanced == "Node capacity is well-balanced"

RECURSIVE LastValid(_, _)
\* GroupBy.last() of one column: the last cell of the group that is not NaN,
\* NaN when the group has none
LastValid(rows, c) ==
    IF rows = <<>> THEN NaN
    ELSE IF IsNaN(rows[Len(rows)][c]) THEN LastValid(SubSeq(rows, 1, Len(rows) - 1), c)
    ELSE rows[Len(rows)][c]

CapacityColumns == {"vcpus_used", "vcpus_total",
                    "cpu_utilization", "memory_utilization", "disk_utilization"}

\* one row of df.groupby('node').last().reset_index()
LatestRow(t, n) ==
    [c \in CapacityColumns \cup {"node"} |->
        IF c = "node" THEN n ELSE LastValid(NodeRows(t, n), c)]

latest_data(t) ==
    LET keys == GroupKeys(t) IN [i \in 1..Len(keys) |-> LatestRow(t, keys[i])]

\* Series.sum(): NaN cells are skipped
ColumnSum(rows, c) == SumSeq(FiniteVals(rows, c))

\* round(x, 2) of a float cell
RoundCell(x) == IF IsNum(x) THEN Num(Round2(x.v, 1)) ELSE x

ResourceAdviceSwapped(x, add, under) ==
    IF FGt(x, AddCapacityPct * Scale) THEN <<under>>
    ELSE IF FLt(x, UnderutilizedPct * Scale) THEN <<add>>
    ELSE <<>>

\* if x > 80: add ... elif x < 20: underutilized ...
ResourceAdvice(x, add, under) ==
    IF FGt(x, AddCapacityPct * Scale) THEN <<add>>
    ELSE IF FLt(x, UnderutilizedPct * Scale) THEN <<under>>
    ELSE <<>>

NodeRecommendation(node) ==
    LET found == ResourceAdvice(node.cpu_utilization, CpuAdd, CpuUnder)
                 \o ResourceAdvice(node.memory_utilization, MemAdd, MemUnder)
                 \o ResourceAdvice(node.disk_utilization, DiskAdd, DiskUnder)
    IN [node |-> node.node,
        cpu_utilization |-> RoundCell(node.cpu_utilization),
        memory_utilization |-> RoundCell(node.memory_utilization),
        disk_utilization |-> RoundCell(node.disk_utilization),
        recommendations |-> IF found = <<>> THEN <<WellBalanced>> ELSE found]

\* the vCPU part of capacity_analysis['cluster']
Cluster(latest) ==
    LET total_vcpus == ColumnSum(latest, "vcpus_total")
        used_vcpus == ColumnSum(latest, "vcpus_used")
    IN [total_vcpus |-> total_vcpus,
        used_vcpus |-> used_vcpus,
        available_vcpus |-> total_vcpus - used_vcpus,
        cpu_utilization |-> RoundCell(PctOf(Num(used_vcpus), Num(total_vcpus))),
        total_nodes |-> Len(latest)]

generate_capacity_analysis(t) ==
    LET latest == latest_data(t)
    IN [cluster |-> Cluster(latest),
        recommendations |-> [i \in 1..Len(latest) |-> NodeRecommendation(latest[i])]]

----------------------------------------------------------------------------
(* Specification SpecCapacity: a derived window through the capacity analyzer *)

\* most samples drawn for node a
MaxCapRows == 2

\* vcpus_used out of VcpusTotal: 10, 20, 50, 80 and 85 percent
VcpusTotal == 20
CapUsed == {2, 4, 10, 16, 17}
CapMem == {10000, 50000, 90000}
CapDisk == {50000, 95000}

CapRow(n, ts, u, m, d) ==
    [timestamp |-> ts, node |-> n,
     vcpus_used |-> Num(u), vcpus_total |-> Num(VcpusTotal),
     cpu_utilization |-> CollectorPct(u, VcpusTotal),
     memory_utilization |-> Num(m), disk_utilization |-> Num(d)]

\* earlier samples of a node, and the samples of node b
StockRows == {<<17, 90000, 95000>>, <<2, 10000, 50000>>, <<10, 50000, 50000>>}

\* the order of the columns in the stored stream (collect_metrics.py, row)
ColumnOrder == <<"timestamp", "node", "vcpus_used", "vcpus_total",
                 "cpu_utilization", "memory_utilization", "disk_utilization">>

\* a row of which only the first `kept` fields were written when the stream
\* was read: read_csv fills the missing trailing fields with NaN
Truncated(r, kept) ==
    [c \in DOMAIN r |->
        IF \E j \in 1..kept : ColumnOrder[j] = c THEN r[c] ELSE NaN]

\* only the last row of the stream can be partly written
TruncateLast(t, kept) ==
    [i \in 1..Len(t) |-> IF i = Len(t) THEN Truncated(t[i], kept) ELSE t[i]]

InitCapacity ==
    /\ pc = "derived"
    /\ \E n \in 1..MaxCapRows :
       \E early \in [1..(n - 1) -> StockRows],
          u \in CapUsed, m \in CapMem, d \in CapDisk,
          withB \in BOOLEAN, b \in StockRows, kept \in {2, 4, Len(ColumnOrder)} :
          df = TruncateLast(
                  [i \in 1..n |-> IF i < n
                                  THEN CapRow("a", i, early[i][1], early[i][2], early[i][3])
                                  ELSE CapRow("a", n, u, m, d)]
                  \o (IF withB THEN <<CapRow("b", n + 1, b[1], b[2], b[3])>> ELSE <<>>),
                  kept)
    /\ Idle

GenerateCapacityAnalysis ==
    /\ pc = "derived"
    /\ capacity_analysis' = generate_capacity_analysis(df)
    /\ pc' = "capacity"
    /\ UNCHANGED <<df, derived, node_summary, anomalies,
                   forecasts, current_time, recommendations>>
    /\ UNCHANGED forecastVars
    /\ UNCHANGED runVars
    /\ UNCHANGED storeVars
    /\ UNCHANGED schedVars

NextCapacity == GenerateCapacityAnalysis

SpecCapacity == InitCapacity /\ [][NextCapacity]_vars

(* The claims' own reading of the analyzer *)

Count(s, x) == Cardinality({i \in 1..Len(s) : s[i] = x})

InBand(x) == IsNum(x) /\ x.v >= 20 * Scale /\ x.v <= 80 * Scale

\* one resource of one node: one add-capacity entry above 80, one
\* underutilized entry below 20, nothing within [20, 80]
AdviceMatches(list, x, add, under) ==
    /\ Count(list, add) = (IF FGt(x, 80 * Scale) THEN 1 ELSE 0)
    /\ Count(list, under) = (IF FLt(x, 20 * Scale) THEN 1 ELSE 0)
    /\ InBand(x) => (Count(list, add) = 0 /\ Count(list, under) = 0)

\* C9: per node and resource, exactly one add-capacity entry when the
\* utilization is > 80, exactly one underutilized entry when it is < 20, none
\* within [20, 80]; the list is the single entry well-balanced iff all three
\* utilizations are within [20, 80]
AdvicePerResource ==
    pc = "capacity" =>
        \A i \in 1..Len(capacity_analysis.recommendations) :
            LET rec == capacity_analysis.recommendations[i]
                list == rec.recommendations
            IN /\ AdviceMatches(list, rec.cpu_utilization, CpuAdd, CpuUnder)
               /\ AdviceMatches(list, rec.memory_utilization, MemAdd, MemUnder)
               /\ AdviceMatches(list, rec.disk_utilization, DiskAdd, DiskUnder)
               /\ (list = <<WellBalanced>>) <=>
                      (/\ InBand(rec.cpu_utilization)
                       /\ InBand(rec.memory_utilization)
                       /\ InBand(rec.disk_utilization))

\* the sample of node n with the greatest timestamp
MostRecent(n) ==
    LET rows == NodeRows(df, n)
    IN CHOOSE r \in {rows[i] : i \in 1..Len(rows)} :
           \A i \in 1..Len(rows) : rows[i].timestamp <= r.timestamp

\* C10: every figure the capacity analysis reports for a node is that of the
\* node's most recent sample, and the cluster sums run over those samples
OnlyMostRecentSample ==
    pc = "capacity" =>
        /\ \A i \in 1..Len(capacity_analysis.recommendations) :
              LET rec == capacity_analysis.recommendations[i]
                  r == MostRecent(rec.node)
              IN /\ rec.cpu_utilization = RoundCell(r.cpu_utilization)
                 /\ rec.memory_utilization = RoundCell(r.memory_utilization)
                 /\ rec.disk_utilization = RoundCell(r.disk_utilization)
        /\ capacity_analysis.cluster.used_vcpus =
               SumSeq(FiniteVals([i \in 1..Len(GroupKeys(df)) |->
                                     MostRecent(GroupKeys(df)[i])], "vcpus_used"))

\* the most recent sample of every node, in the order of the group keys
MostRecentSamples ==
    [i \in 1..Len(GroupKeys(df)) |-> MostRecent(GroupKeys(df)[i])]

\* C11: the cluster cpu_utilization is sum(vcpus_used) / sum(vcpus_total) * 100
\* over the most recent sample of each node, rounded to 2 decimals, and
\* used_vcpus, total_vcpus and available_vcpus = total - used are those of
\* the same samples
ClusterOverLatestSamples ==
    pc = "capacity" =>
        LET used == ColumnSum(MostRecentSamples, "vcpus_used")
            total == ColumnSum(MostRecentSamples, "vcpus_total")
            cluster == capacity_analysis.cluster
        IN /\ cluster.used_vcpus = used
           /\ cluster.total_vcpus = total
           /\ cluster.available_vcpus = total - used
           /\ cluster.cpu_utilization = RoundCell(PctOf(Num(used), Num(total)))

\* the same, on windows none of whose cells is missing
ClusterOverCompleteSamples ==
    (\A i \in 1..Len(df) : \A c \in CapacityColumns : ~IsNaN(df[i][c]))
        => ClusterOverLatestSamples

----------------------------------------------------------------------------
(* MetricsAnalyzer.generate_time_series_analysis *)

\* timestamps of a run's window are in minutes; resample('H') buckets by hour
MinutesPerHour == 60

HourOf(ts) == ts \div MinutesPerHour

\* the mean of column c over the rows of one hourly bucket, not rounded
BucketMean(rows, c) ==
    LET vs == FiniteVals(rows, c)
    IN IF \E i \in 1..Len(rows) : IsInf(rows[i][c]) THEN InfMean(rows, c)
       ELSE IF Len(vs) = 0 THEN NaN
       ELSE Num(FloorDiv(SumSeq(vs), Len(vs)))

RECURSIVE MinOf(_)
MinOf(s) == IF Len(s) = 1 THEN s[1] ELSE Min(s[1], MinOf(Tail(s)))

\* column c of df_hourly for one node: one cell per hour from the node's first
\* hour to its last, NaN for an hour without samples
HourlySeries(rows, c) ==
    LET hours == [i \in 1..Len(rows) |-> HourOf(rows[i].timestamp)]
        lo == MinOf(hours)
        hi == MaxSeq(hours)
    IN [b \in 1..(hi - lo + 1) |->
           BucketMean(SelectSeq(rows, LAMBDA r : HourOf(r.timestamp) = lo + b - 1), c)]

RECURSIVE WeightedSum(_, _)
\* sum of (index - 1) * y over the cells of ys, the first index being `from`
WeightedSum(ys, from) ==
    IF ys = <<>> THEN 0 ELSE (from - 1) * Head(ys) + WeightedSum(Tail(ys), from + 1)

\* np.polyfit(x, y.fillna(0), 1)[0] with x = 0 .. n-1: the least-squares slope;
\* NaN when a cell of y is infinite and polyfit does not raise
PolyfitSlope(cells) ==
    LET n == Len(cells)
        filled == [i \in 1..n |-> FillNa0(cells[i])]
        ys == [i \in 1..n |-> filled[i].v]
        sx == (n * (n - 1)) \div 2
        sxx == ((n - 1) * n * (2 * n - 1)) \div 6
    IN IF \E i \in 1..n : IsInf(filled[i]) THEN NaN
       ELSE Num(FloorDiv(n * WeightedSum(ys, 1) - sx * SumSeq(ys), n * sxx - sx * sx))

TrendColumns == {"timestamp", "node", "cpu_utilization", "memory_utilization",
                 "disk_utilization", "instances", "vcpus_used", "memory_used_mb",
                 "disk_used_gb"}

\* the nodes that get a trend: those with more than one hourly bucket
TrendNodes(t) ==
    {n \in {t[i].node : i \in 1..Len(t)} :
        Len(HourlySeries(NodeRows(t, n), "cpu_utilization")) > 1}

\* a cell handed to polyfit is infinite: whether numpy raises LinAlgError or
\* returns NaN coefficients is left to the build
PolyfitUndefined(t) ==
    \E n \in TrendNodes(t) :
        \E c \in {"cpu_utilization", "memory_utilization", "disk_utilization"} :
            LET cells == HourlySeries(NodeRows(t, n), c)
            IN \E i \in 1..Len(cells) : IsInf(cells[i])

\* the trends dict, keyed by node; {} when an exception was caught
generate_time_series_analysis(t, raises) ==
    IF ~(TrendColumns \subseteq Columns(t)) \/ (PolyfitUndefined(t) /\ raises)
    THEN <<>>
    ELSE [n \in TrendNodes(t) |->
            LET rows == NodeRows(t, n)
            IN [cpu_trend |-> PolyfitSlope(HourlySeries(rows, "cpu_utilization")),
                memory_trend |-> PolyfitSlope(HourlySeries(rows, "memory_utilization")),
                disk_trend |-> PolyfitSlope(HourlySeries(rows, "disk_utilization")),
                data_points |-> Len(HourlySeries(rows, "cpu_utilization"))]]

----------------------------------------------------------------------------
(* MetricsAnalyzer.run_analysis, load_metrics and save_analysis *)

SummaryColumns == {"node", "cpu_utilization", "memory_utilization", "disk_utilization",
                   "instances", "vcpus_total", "memory_total_mb", "disk_total_gb",
                   "cpu_efficiency", "memory_efficiency", "cpu_waste", "memory_waste"}

CapacityReads == {"node", "vcpus_total", "memory_total_mb", "disk_total_gb",
                  "vcpus_used", "memory_used_mb", "disk_used_gb", "instances",
                  "cpu_utilization", "memory_utilization", "disk_utilization"}

AnomalyReads == {"node", "timestamp", "cpu_utilization", "memory_utilization"}

\* try: ... except Exception: return None / {} / []
Caught(empty) == [status |-> "caught", value |-> empty]
Returned(v) == [status |-> "ok", value |-> v]

TryNodeSummary(t) ==
    IF SummaryColumns \subseteq Columns(t)
    THEN Returned(generate_node_summary(t)) ELSE Caught(<<>>)

TryTimeSeriesAnalysis(t, raises) ==
    IF ~(TrendColumns \subseteq Columns(t)) \/ (PolyfitUndefined(t) /\ raises)
    THEN Caught(<<>>) ELSE Returned(generate_time_series_analysis(t, raises))

TryCapacityAnalysis(t) ==
    IF CapacityReads \subseteq Columns(t)
    THEN Returned(generate_capacity_analysis(t)) ELSE Caught(<<>>)

TryAnomalyDetection(t) ==
    IF AnomalyReads \subseteq Columns(t)
    THEN Returned(generate_anomaly_detection(t)) ELSE Caught(<<>>)

NotComputed == [status |-> "none", value |-> <<>>]

\* the file names of one run: <kind>_<timestamp>
ArtifactKinds == {"node_summary", "trends", "capacity_analysis", "anomalies",
                  "summary_report"}

\* open(path, 'w') and to_csv(path): a file of that name is replaced
WriteFile(dir, kind, ts, r) ==
    {f \in dir : ~(f.kind = kind /\ f.stamp = ts)}
        \cup {[kind |-> kind, stamp |-> ts, run |-> r]}

\* the positions of a run between its start and its return
Computing == {"load", "calculate", "summary", "trends", "capacity", "anomalies"}
Saving == {"save", "save_trends", "save_capacity", "save_anomalies", "save_report"}

\* the calls of run_analysis that are followed
Runs == {"first", "second"}

\* latest second the wall clock reaches
MaxClock == 2

\* a call of run_analysis; an earlier call has returned, raised or was killed
StartRun ==
    /\ pc \in {"idle", "returned", "killed"}
    /\ run < Cardinality(Runs)
    /\ run' = run + 1
    /\ pc' = "load"
    /\ result' = "running"
    /\ df' = <<>>
    /\ derived' = NoResult
    /\ node_summary' = NotComputed
    /\ trends' = NotComputed
    /\ capacity_analysis' = NotComputed
    /\ anomalies' = NotComputed
    /\ UNCHANGED <<forecasts, current_time, recommendations,
                   store, clock, stamp, analysis_dir, completed>>
    /\ UNCHANGED forecastVars
    /\ UNCHANGED storeVars
    /\ UNCHANGED schedVars

\* load_metrics: None when the file is missing or reading it raises
LoadMetrics ==
    /\ pc = "load"
    /\ IF store.state = "ok"
       THEN /\ df' = store.rows
            /\ pc' = "calculate"
            /\ UNCHANGED result
       ELSE /\ result' = "False"
            /\ pc' = "returned"
            /\ UNCHANGED df
    /\ UNCHANGED <<derived, node_summary, capacity_analysis, anomalies, trends,
                   forecasts, current_time, recommendations,
                   store, clock, stamp, analysis_dir, run, completed>>
    /\ UNCHANGED forecastVars
    /\ UNCHANGED storeVars
    /\ UNCHANGED schedVars

\* df = self.calculate_utilization_metrics(df): not inside any try
RunCalculateUtilizationMetrics ==
    /\ pc = "calculate"
    /\ derived' = calculate_utilization_metrics(df)
    /\ IF derived'.status = "ok"
       THEN pc' = "summary" /\ UNCHANGED result
       ELSE pc' = "returned" /\ result' = derived'.status
    /\ UNCHANGED <<df, node_summary, capacity_analysis, anomalies, trends,
                   forecasts, current_time, recommendations,
                   store, clock, stamp, analysis_dir, run, completed>>
    /\ UNCHANGED forecastVars
    /\ UNCHANGED storeVars
    /\ UNCHANGED schedVars

RunGenerateNodeSummary ==
    /\ pc = "summary"
    /\ node_summary' = TryNodeSummary(derived.rows)
    /\ pc' = "trends"
    /\ UNCHANGED <<df, derived, capacity_analysis, anomalies, trends,
                   forecasts, current_time, recommendations,
                   store, clock, stamp, analysis_dir, result, run, completed>>
    /\ UNCHANGED forecastVars
    /\ UNCHANGED storeVars
    /\ UNCHANGED schedVars

RunGenerateTimeSeriesAnalysis ==
    /\ pc = "trends"
    /\ \E raises \in BOOLEAN : trends' = TryTimeSeriesAnalysis(derived.rows, raises)
    /\ pc' = "capacity"
    /\ UNCHANGED <<df, derived, node_summary, capacity_analysis, anomalies,
                   forecasts, current_time, recommendations,
                   store, clock, stamp, analysis_dir, result, run, completed>>
    /\ UNCHANGED forecastVars
    /\ UNCHANGED storeVars
    /\ UNCHANGED schedVars

RunGenerateCapacityAnalysis ==
    /\ pc = "capacity"
    /\ capacity_analysis' = TryCapacityAnalysis(derived.rows)
    /\ pc' = "anomalies"
    /\ UNCHANGED <<df, derived, node_summary, anomalies, trends,
                   forecasts, current_time, recommendations,
                   store, clock, stamp, analysis_dir, result, run, completed>>
    /\ UNCHANGED forecastVars
    /\ UNCHANGED storeVars
    /\ UNCHANGED schedVars

RunGenerateAnomalyDetection ==
    /\ pc = "anomalies"
    /\ anomalies' = TryAnomalyDetection(derived.rows)
    /\ pc' = "save"
    /\ UNCHANGED <<df, derived, node_summary, capacity_analysis, trends,
                   forecasts, current_time, recommendations,
                   store, clock, stamp, analysis_dir, result, run, completed>>
    /\ UNCHANGED forecastVars
    /\ UNCHANGED storeVars
    /\ UNCHANGED schedVars

\* the wall clock moves on; only save_analysis reads it
Tick ==
    /\ pc = "save"
    /\ clock < MaxClock
    /\ clock' = clock + 1
    /\ UNCHANGED <<pc, df, derived, node_summary, capacity_analysis, anomalies, trends,
                   forecasts, current_time, recommendations,
                   store, stamp, analysis_dir, result, run, completed>>
    /\ UNCHANGED forecastVars
    /\ UNCHANGED storeVars
    /\ UNCHANGED schedVars

\* timestamp = datetime.now().strftime(...); the node summary is written
\* unless it is None
SaveNodeSummary ==
    /\ pc = "save"
    /\ stamp' = clock
    /\ analysis_dir' = IF node_summary.status = "ok"
                       THEN WriteFile(analysis_dir, "node_summary", clock, run)
                       ELSE analysis_dir
    /\ pc' = "save_trends"
    /\ UNCHANGED <<df, derived, node_summary, capacity_analysis, anomalies, trends,
                   forecasts, current_time, recommendations, store, clock, result, run, completed>>
    /\ UNCHANGED forecastVars
    /\ UNCHANGED storeVars
    /\ UNCHANGED schedVars

SaveStep(at, kind, next) ==
    /\ pc = at
    /\ analysis_dir' = WriteFile(analysis_dir, kind, stamp, run)
    /\ pc' = next
    /\ UNCHANGED <<df, derived, node_summary, capacity_analysis, anomalies, trends,
                   forecasts, current_time, recommendations,
                   store, clock, stamp, result, run, completed>>
    /\ UNCHANGED forecastVars
    /\ UNCHANGED storeVars
    /\ UNCHANGED schedVars

SaveTrends == SaveStep("save_trends", "trends", "save_capacity")

SaveCapacityAnalysis == SaveStep("save_capacity", "capacity_analysis", "save_anomalies")

SaveAnomalies == SaveStep("save_anomalies", "anomalies", "save_report")

\* create_summary_report, after which run_analysis returns True
CreateSummaryReport ==
    /\ pc = "save_report"
    /\ analysis_dir' = WriteFile(analysis_dir, "summary_report", stamp, run)
    /\ pc' = "returned"
    /\ result' = "True"
    /\ completed' = completed \cup {run}
    /\ UNCHANGED <<df, derived, node_summary, capacity_analysis, anomalies, trends,
                   forecasts, current_time, recommendations, store, clock, stamp, run>>
    /\ UNCHANGED forecastVars
    /\ UNCHANGED storeVars
    /\ UNCHANGED schedVars

\* the process is ended from outside (the scheduler's timeout, an operator)
\* while the run is under way; what it held in memory is gone
Abort ==
    /\ pc \in Computing \cup Saving
    /\ pc' = "killed"
    /\ result' = "killed"
    /\ df' = <<>>
    /\ derived' = NoResult
    /\ node_summary' = NotComputed
    /\ trends' = NotComputed
    /\ capacity_analysis' = NotComputed
    /\ anomalies' = NotComputed
    /\ UNCHANGED <<forecasts, current_time, recommendations,
                   store, clock, stamp, analysis_dir, run, completed>>
    /\ UNCHANGED forecastVars
    /\ UNCHANGED storeVars
    /\ UNCHANGED schedVars

----------------------------------------------------------------------------
(* Specification SpecRun: two calls of run_analysis over one sample store *)

\* the three stored schemas, each with the instances column
RunSchemas == {cols \cup {"instances"} : cols \in Schemas}

MemTotalMb == 1000
DiskTotalGb == 100

\* a stored sample whose memory and disk are at mem and disk percent
RunRow(cols, n, ts, c, mem, disk) ==
    LET full == [timestamp |-> ts, node |-> n,
                 vcpus_used |-> Num(c[1]), vcpus_total |-> Num(c[2]),
                 memory_used_mb |-> Num(mem * (MemTotalMb \div 100)),
                 memory_total_mb |-> Num(MemTotalMb),
                 disk_used_gb |-> Num(disk * (DiskTotalGb \div 100)),
                 disk_total_gb |-> Num(DiskTotalGb),
                 instances |-> Num(1),
                 total_instance_vcpus |-> Num(1),
                 total_instance_memory_mb |-> Num(MemTotalMb \div 2),
                 cpu_utilization |-> CollectorPct(c[1], c[2]),
                 memory_utilization |-> CollectorPct(mem, 100),
                 disk_utilization |-> CollectorPct(disk, 100)]
    IN [f \in cols |-> full[f]]

\* node a: 7 of 8 vCPUs, or 7 of 0; node b: 2 of 8
ACpu == {<<7, 8>>, <<7, 0>>}
BCpu == <<2, 8>>
BMem == {10, 50, 70}
BDisk == {10, 50}

\* the minute of a second sample of node a: none, within the first hour, in the next
SecondAt == {0, 30, 90}

RunWindow(cols, ac, bm, bd, at) ==
    <<RunRow(cols, "a", 0, ac, 50, 50), RunRow(cols, "b", 0, BCpu, bm, bd)>>
        \o (IF at = 0 THEN <<>> ELSE <<RunRow(cols, "a", at, <<5, 8>>, 50, 50)>>)

InitRun ==
    /\ pc = "idle"
    /\ ForecastIdle
    /\ \/ store = NoStore
       \/ store = [state |-> "unreadable", rows |-> <<>>]
       \/ \E cols \in RunSchemas, ac \in ACpu, bm \in BMem, bd \in BDisk, at \in SecondAt :
             store = [state |-> "ok", rows |-> RunWindow(cols, ac, bm, bd, at)]
    /\ df = <<>>
    /\ derived = NoResult
    /\ node_summary = NotComputed
    /\ trends = NotComputed
    /\ capacity_analysis = NotComputed
    /\ anomalies = NotComputed
    /\ forecasts = <<>>
    /\ current_time = 0
    /\ recommendations = <<>>
    /\ clock = 0
    /\ stamp = 0
    /\ analysis_dir = {}
    /\ result = "none"
    /\ run = 0
    /\ completed = {}
    /\ StoreIdle
    /\ SchedIdle

NextRun ==
    \/ StartRun
    \/ LoadMetrics
    \/ RunCalculateUtilizationMetrics
    \/ RunGenerateNodeSummary
    \/ RunGenerateTimeSeriesAnalysis
    \/ RunGenerateCapacityAnalysis
    \/ RunGenerateAnomalyDetection
    \/ Tick
    \/ SaveNodeSummary
    \/ SaveTrends
    \/ SaveCapacityAnalysis
    \/ SaveAnomalies
    \/ CreateSummaryReport
    \/ Abort

SpecRun == InitRun /\ [][NextRun]_vars

RunTypeOK ==
    /\ pc \in {"idle", "returned", "killed"} \cup Computing \cup Saving
    /\ result \in {"none", "running", "True", "False", "KeyError", "killed"}

(* The claims' own reading of a run *)

\* the store holds one sample of node a, 7 of 8 vCPUs used, and one of node b,
\* 2 of 8 used
ScenarioStore ==
    /\ store.state = "ok"
    /\ Len(store.rows) = 2
    /\ store.rows[1].node = "a" /\ store.rows[2].node = "b"
    /\ store.rows[1].vcpus_used = Num(7) /\ store.rows[1].vcpus_total = Num(8)
    /\ store.rows[2].vcpus_used = Num(2) /\ store.rows[2].vcpus_total = Num(8)

SummaryOf(n) ==
    LET rows == node_summary.value
    IN rows[CHOOSE i \in 1..Len(rows) : rows[i].node = n]

AdviceOf(n) ==
    LET recs == capacity_analysis.value.recommendations
        i == CHOOSE j \in 1..Len(recs) : recs[j].node = n
    IN {recs[i].recommendations[k] : k \in 1..Len(recs[i].recommendations)}

\* used * 100 / total of a stored sample, as an exact comparison with pct
StoredAbove(r, used, total, pct) == r[used].v * 100 > pct * r[total].v
StoredBelow(r, used, total, pct) == r[used].v * 100 < pct * r[total].v

Saved(kind) == [kind |-> kind, stamp |-> stamp, run |-> run] \in analysis_dir

\* a component ran: it returned its result, or failed and gave its empty one
Contributed(c) == c.status = "ok" \/ (c.status = "caught" /\ c.value = <<>>)

\* C13: once the store is loaded, the failure of one component never reaches
\* the caller of run_analysis as an exception; the failing component gives an
\* empty result, every other component is computed and its artifact saved
NoStepAbortsTheOthers ==
    (pc = "returned" /\ store.state = "ok") =>
        /\ result = "True"
        /\ derived.status = "ok"
        /\ Contributed(node_summary) /\ Contributed(trends)
        /\ Contributed(capacity_analysis) /\ Contributed(anomalies)
        /\ node_summary.status = "ok" => Saved("node_summary")
        /\ Saved("trends") /\ Saved("capacity_analysis") /\ Saved("anomalies")

\* the same on stores that carry the total_instance fields
NoStepAbortsOnFullSamples ==
    InstColumns \subseteq Columns(store.rows) => NoStepAbortsTheOthers

\* the artifact kinds of run r a reader of the analysis directory finds
KindsOf(r) == {f.kind : f \in {g \in analysis_dir : g.run = r}}

\* C14: at every moment the analysis directory holds, of every run, either all
\* five artifacts or none
AllOrNothing ==
    \A r \in 1..Cardinality(Runs) : KindsOf(r) = {} \/ KindsOf(r) = ArtifactKinds

\* a killed run has left some of its artifacts and not the others
PartialRunRemains ==
    /\ pc = "killed"
    /\ KindsOf(run) # {} /\ KindsOf(run) # ArtifactKinds

\* C15: the artifacts of an earlier completed run are still there when a
\* later run has completed
NoRunOverwritesAnother ==
    pc = "returned" => \A r \in completed : KindsOf(r) = ArtifactKinds

\* C19: run_analysis returns False, raises nothing and writes no artifact when
\* the store is missing or unreadable, and returns True whenever the store
\* was read
SuccessIffStoreRead ==
    pc = "returned" =>
        IF store.state = "ok"
        THEN result = "True"
        ELSE result = "False" /\ KindsOf(run) = {}

\* the same on stores that are missing, unreadable or carry the
\* total_instance fields
SuccessIffFullStoreRead ==
    (store.state = "ok" => InstColumns \subseteq Columns(store.rows))
        => SuccessIffStoreRead

----------------------------------------------------------------------------
(* UsageForecaster.prepare_prophet_data *)

MinNodeRows == 10
MinProphetRows == 5
OutlierSigmas == 3

\* y >= mean - 3*std and y <= mean + 3*std over the values ys; False for every
\* y when the std is NaN (fewer than 2 values)
WithinThreeSigma(y, ys) == Len(ys) >= 2 /\ ~DeviatesBy(y, ys, OutlierSigmas)

\* what is kept of the rows that survived dropna()
RemoveOutliers(kept, metric) ==
    LET ys == [i \in 1..Len(kept) |-> kept[i][metric].v]
    IN SelectSeq(kept, LAMBDA r : WithinThreeSigma(r[metric].v, ys))

NoData == [status |-> "None", rows |-> <<>>]

PrepareCountsValues(t, node, metric) ==
    LET node_data == NodeRows(t, node)
        kept == SelectSeq(node_data, LAMBDA r : IsNum(r[metric]))
        inside == RemoveOutliers(kept, metric)
    IN IF Len(kept) < MinNodeRows THEN NoData
       ELSE IF Len(inside) < MinProphetRows THEN NoData
       ELSE [status |-> "ok",
             rows |-> [i \in 1..Len(inside) |->
                          [ds |-> inside[i].timestamp, y |-> inside[i][metric]]]]

\* None, or the (ds, y) rows handed to the model
prepare_prophet_data(t, node, metric) ==
    LET node_data == NodeRows(t, node)
    IN IF Len(node_data) < MinNodeRows THEN NoData
       ELSE IF metric \notin Columns(t) THEN NoData
       ELSE LET kept == SelectSeq(node_data, LAMBDA r : IsNum(r[metric]))
                inside == RemoveOutliers(kept, metric)
            IN IF Len(inside) < MinProphetRows THEN NoData
               ELSE [status |-> "ok",
                     rows |-> [i \in 1..Len(inside) |->
                                  [ds |-> inside[i].timestamp, y |-> inside[i][metric]]]]

----------------------------------------------------------------------------
(* Specification SpecPrepare: one node's series through prepare_prophet_data *)

\* most samples drawn for the node whose series is prepared
MaxPrepareRows == 12

\* the series: `missing` cells without a value, then a level, with an
\* outlier in the last sample or none
PrepareLevels == {0, 50000}
PrepareOutliers == {0, 95000}

PrepareSeries(n, missing, level, outlier) ==
    [i \in 1..n |-> IF i <= missing THEN NaN
                    ELSE IF i = n /\ outlier > 0 THEN Num(outlier)
                    ELSE Num(level)]

InitPrepare ==
    /\ pc = "loaded"
    /\ \E n \in (MaxPrepareRows - 4)..MaxPrepareRows :
       \E missing \in 0..n, level \in PrepareLevels, outlier \in PrepareOutliers,
          withB \in BOOLEAN :
          LET ys == PrepareSeries(n, missing, level, outlier)
          IN df = [i \in 1..n |-> UtilRow("a", i, ys[i], Num(30000), NaN)]
                  \o (IF withB THEN <<UtilRow("b", n + 1, Num(95000), Num(0), Num(0))>>
                      ELSE <<>>)
    /\ derived = NoResult
    /\ node_summary = <<>>
    /\ capacity_analysis = <<>>
    /\ anomalies = <<>>
    /\ forecasts = <<>>
    /\ current_time = 0
    /\ recommendations = <<>>
    /\ RunIdle

PrepareProphetData ==
    /\ pc = "loaded"
    /\ \E node \in {"a", "b"}, metric \in {"cpu_utilization", "disk_utilization"} :
          /\ prophet_data' = [node |-> node, metric |-> metric,
                              data |-> prepare_prophet_data(df, node, metric)]
          /\ pc' = "prepared"
    /\ UNCHANGED <<df, derived, node_summary, capacity_analysis, anomalies,
                   forecasts, current_time, recommendations>>
    /\ UNCHANGED runVars
    /\ UNCHANGED <<prophet, history, forecasts_dir>>
    /\ UNCHANGED storeVars
    /\ UNCHANGED schedVars

NextPrepare == PrepareProphetData

SpecPrepare == InitPrepare /\ [][NextPrepare]_vars

(* The claims' own reading of the preparation *)

\* the values of the metric the node has, missing ones dropped
SeriesValues(node, metric) == FiniteVals(NodeRows(df, node), metric)

\* how many of them lie within 3 sample standard deviations of their mean
\* (the values of the windows drawn are whole percents)
SurvivorCount(node, metric) ==
    LET vals == SeriesValues(node, metric)
        k == Len(vals)
        ys == [i \in 1..k |-> vals[i] \div Scale]
        S == SumSeq(ys)
    IN Cardinality({i \in 1..k :
           /\ k >= 2
           /\ (k - 1) * (k * ys[i] - S) * (k * ys[i] - S) <= 9 * SqDev(ys, k, S)})

\* C17: the pair is prepared for forecasting iff it has at least 10 values of
\* the metric and at least 5 of them remain after the one-pass 3-sigma
\* rejection
PreparedIffTenValues ==
    pc = "prepared" =>
        LET node == prophet_data.node
            metric == prophet_data.metric
        IN (prophet_data.data.status = "ok") <=>
               /\ Len(SeriesValues(node, metric)) >= 10
               /\ SurvivorCount(node, metric) >= 5

\* the same with the 10 counted over the node's samples, with or without a
\* value of the metric
PreparedIffTenRows ==
    pc = "prepared" =>
        LET node == prophet_data.node
            metric == prophet_data.metric
        IN (prophet_data.data.status = "ok") <=>
               /\ Len(NodeRows(df, node)) >= 10
               /\ SurvivorCount(node, metric) >= 5

\* a node with 10 samples of which fewer than 10 carry the metric is prepared
PreparedWitness ==
    /\ pc = "prepared"
    /\ prophet_data.data.status = "ok"
    /\ Len(NodeRows(df, prophet_data.node)) >= 10
    /\ Len(SeriesValues(prophet_data.node, prophet_data.metric)) < 10

\* an outlier beyond 3 standard deviations was dropped from a prepared series
OutlierDropped ==
    /\ pc = "prepared"
    /\ prophet_data.data.status = "ok"
    /\ Len(prophet_data.data.rows) < Len(SeriesValues(prophet_data.node, prophet_data.metric))

----------------------------------------------------------------------------
(* UsageForecaster: load_metrics, forecast_metric, generate_all_forecasts *)

\* load_metrics of the forecaster: None when the file is missing or reading
\* or deriving raises; a utilization column that is absent is derived
ForecasterLoad(st) ==
    IF st.state # "ok" THEN NoData
    ELSE LET cols == Columns(st.rows)
             needs == (IF "cpu_utilization" \in cols THEN {} ELSE {"vcpus_used", "vcpus_total"})
                      \cup (IF "memory_utilization" \in cols THEN {}
                            ELSE {"memory_used_mb", "memory_total_mb"})
                      \cup (IF "disk_utilization" \in cols THEN {}
                            ELSE {"disk_used_gb", "disk_total_gb"})
         IN IF ~(needs \subseteq cols) THEN NoData
            ELSE [status |-> "ok",
                  rows |-> [i \in 1..Len(st.rows) |->
                      LET r == st.rows[i]
                      IN [c \in cols \cup UtilColumns |->
                            IF c \in cols THEN r[c]
                            ELSE IF c = "cpu_utilization"
                                 THEN UtilColumn(r, cols, c, "vcpus_used", "vcpus_total")
                            ELSE IF c = "memory_utilization"
                                 THEN UtilColumn(r, cols, c, "memory_used_mb", "memory_total_mb")
                            ELSE UtilColumn(r, cols, c, "disk_used_gb", "disk_total_gb")]]]

\* future periods asked of the model (run_forecasting's `periods`)
Periods == 2

Abs(x) == IF x < 0 THEN -x ELSE x

\* np.mean(np.abs((y - forecast) / y)) * 100, in whole percents: a term with
\* y = 0 is infinite, or NaN when the forecast is 0 too; the mean skips NaN
Mape(data, yhat) ==
    LET ys == [i \in 1..Len(data) |-> data[i].y.v]
        finite == SelectSeq(ys, LAMBDA y : y # 0)
        terms == [i \in 1..Len(finite) |-> (Abs(finite[i] - yhat) * 100) \div Abs(finite[i])]
    IN IF \E i \in 1..Len(ys) : ys[i] = 0 /\ yhat # 0 THEN PosInf
       ELSE IF Len(finite) = 0 THEN NaN
       ELSE Num(SumSeq(terms) \div Len(terms))

\* the rows of one pair: the in-sample rows at the history timestamps, then
\* `Periods` hourly rows after the last one
ForecastData(node, metric, data, yhat, now) ==
    LET last == data[Len(data)].ds
        stamps == [i \in 1..(Len(data) + Periods) |->
                      IF i <= Len(data) THEN data[i].ds ELSE last + (i - Len(data))]
    IN [i \in 1..Len(stamps) |->
           [timestamp |-> stamps[i], forecast |-> yhat, node |-> node, metric |-> metric,
            created_at |-> now, mape |-> Mape(data, yhat)]]

\* None when the pair is not prepared or anything raises, else its rows
forecast_metric(t, node, metric, behaviour, now) ==
    LET prophet_rows == prepare_prophet_data(t, node, metric)
    IN IF prophet_rows.status # "ok" THEN <<>>
       ELSE IF behaviour.raises THEN <<>>
       ELSE ForecastData(node, metric, prophet_rows.rows, behaviour.yhat, now)

ForecastMetrics == <<"cpu_utilization", "memory_utilization", "disk_utilization">>

\* the (node, metric) pairs in loop order
RECURSIVE PairsOf(_)
PairsOf(nodes) ==
    IF nodes = <<>> THEN <<>>
    ELSE [i \in 1..Len(ForecastMetrics) |-> <<Head(nodes), ForecastMetrics[i]>>]
         \o PairsOf(Tail(nodes))

RECURSIVE ForecastLoopAborting(_, _, _, _)
ForecastLoopAborting(t, pairs, lib, now) ==
    IF pairs = <<>> THEN <<>>
    ELSE LET p == Head(pairs)
         IN IF prepare_prophet_data(t, p[1], p[2]).status = "ok" /\ lib[p].raises
            THEN <<>>
            ELSE forecast_metric(t, p[1], p[2], lib[p], now)
                 \o ForecastLoopAborting(t, Tail(pairs), lib, now)

RECURSIVE ForecastLoop(_, _, _, _)
\* for node in nodes: for metric in metrics: append the forecast unless None
ForecastLoop(t, pairs, lib, now) ==
    IF pairs = <<>> THEN <<>>
    ELSE LET p == Head(pairs)
         IN forecast_metric(t, p[1], p[2], lib[p], now)
            \o ForecastLoop(t, Tail(pairs), lib, now)

\* the combined table, <<>> standing for None
generate_all_forecasts(t, lib, now) == ForecastLoop(t, PairsOf(UniqueNodes(t)), lib, now)

----------------------------------------------------------------------------
(* UsageForecaster.run_forecasting and save_forecasts *)

StartForecasting ==
    /\ pc \in {"idle", "returned"}
    /\ run < Cardinality(Runs)
    /\ run' = run + 1
    /\ pc' = "f_load"
    /\ result' = "running"
    /\ df' = <<>>
    /\ forecasts' = <<>>
    /\ recommendations' = <<>>
    /\ UNCHANGED <<derived, node_summary, capacity_analysis, anomalies, trends,
                   current_time, store, clock, stamp, analysis_dir, completed>>
    /\ UNCHANGED forecastVars
    /\ UNCHANGED storeVars
    /\ UNCHANGED schedVars

ForecasterLoadMetrics ==
    /\ pc = "f_load"
    /\ LET loaded == ForecasterLoad(store)
       IN IF loaded.status = "ok"
          THEN df' = loaded.rows /\ pc' = "f_forecast" /\ UNCHANGED result
          ELSE result' = "False" /\ pc' = "returned" /\ UNCHANGED df
    /\ UNCHANGED <<derived, node_summary, capacity_analysis, anomalies, trends,
                   forecasts, current_time, recommendations,
                   store, clock, stamp, analysis_dir, run, completed>>
    /\ UNCHANGED forecastVars
    /\ UNCHANGED storeVars
    /\ UNCHANGED schedVars

\* forecasts is None: run_forecasting returns False
GenerateAllForecasts ==
    /\ pc = "f_forecast"
    /\ forecasts' = generate_all_forecasts(df, prophet, clock)
    /\ IF forecasts' = <<>>
       THEN result' = "False" /\ pc' = "returned"
       ELSE pc' = "f_visualize" /\ UNCHANGED result
    /\ UNCHANGED <<df, derived, node_summary, capacity_analysis, anomalies, trends,
                   current_time, recommendations,
                   store, clock, stamp, analysis_dir, run, completed>>
    /\ UNCHANGED forecastVars
    /\ UNCHANGED storeVars
    /\ UNCHANGED schedVars

WriteForecastFile(dir, kind, ts, r) ==
    {f \in dir : ~(f.kind = kind /\ f.stamp = ts)}
        \cup {[kind |-> kind, name |-> <<"", "">>, stamp |-> ts, run |-> r]}

\* one <node>_<metric>_forecast.html per pair of the table
CreateForecastVisualizations ==
    /\ pc = "f_visualize"
    /\ forecasts_dir' =
           LET plotted == {<<forecasts[i].node, forecasts[i].metric>> :
                               i \in 1..Len(forecasts)}
           IN {f \in forecasts_dir : f.kind # "plot" \/ f.name \notin plotted}
                  \cup {[kind |-> "plot", name |-> p, stamp |-> 0, run |-> run] :
                            p \in plotted}
    /\ pc' = "f_recommend"
    /\ UNCHANGED <<df, derived, node_summary, capacity_analysis, anomalies, trends,
                   forecasts, current_time, recommendations,
                   store, clock, stamp, analysis_dir, result, run, completed>>
    /\ UNCHANGED <<prophet_data, prophet, history>>
    /\ UNCHANGED storeVars
    /\ UNCHANGED schedVars

\* time passes before the recommendation generator reads the clock
ForecastTick ==
    /\ pc = "f_recommend"
    /\ clock < MinNodeRows + Periods
    /\ clock' = clock + 1
    /\ UNCHANGED <<pc, df, derived, node_summary, capacity_analysis, anomalies, trends,
                   forecasts, current_time, recommendations,
                   store, stamp, analysis_dir, result, run, completed>>
    /\ UNCHANGED forecastVars
    /\ UNCHANGED storeVars
    /\ UNCHANGED schedVars

\* current_time = datetime.now()
RunGenerateCapacityRecommendations ==
    /\ pc = "f_recommend"
    /\ current_time' = clock
    /\ recommendations' = generate_capacity_recommendations(forecasts, clock)
    /\ pc' = "f_save"
    /\ UNCHANGED <<df, derived, node_summary, capacity_analysis, anomalies, trends,
                   forecasts, store, clock, stamp, analysis_dir, result, run, completed>>
    /\ UNCHANGED forecastVars
    /\ UNCHANGED storeVars
    /\ UNCHANGED schedVars

\* save_forecasts and create_forecast_summary, then run_forecasting returns True
SaveForecasts ==
    /\ pc = "f_save"
    /\ stamp' = clock
    /\ LET withTable == WriteForecastFile(forecasts_dir, "forecasts", clock, run)
           withRecs == IF recommendations # <<>>
                       THEN WriteForecastFile(withTable, "recommendations", clock, run)
                       ELSE withTable
       IN forecasts_dir' = WriteForecastFile(withRecs, "forecast_summary", clock, run)
    /\ history' = Append(history, recommendations)
    /\ result' = "True"
    /\ pc' = "returned"
    /\ UNCHANGED <<df, derived, node_summary, capacity_analysis, anomalies, trends,
                   forecasts, current_time, recommendations,
                   store, clock, analysis_dir, run, completed>>
    /\ UNCHANGED <<prophet_data, prophet>>
    /\ UNCHANGED storeVars
    /\ UNCHANGED schedVars

----------------------------------------------------------------------------
(* Specification SpecForecast: two calls of run_forecasting over one store *)

\* what the library does with a series: fit or predict raises, or every row
\* of the pair is forecast at one level
LibBehaviours == {[raises |-> TRUE, yhat |-> 0],
                  [raises |-> FALSE, yhat |-> 0],
                  [raises |-> FALSE, yhat |-> 85000]}
Steady == [raises |-> FALSE, yhat |-> 60000]

\* node b has too few samples, or as many as node a
BRows == {3, MinNodeRows}

FRow(n, ts, c, withCpu) ==
    LET full == [timestamp |-> ts, node |-> n,
                 vcpus_used |-> Num(c[1]), vcpus_total |-> Num(c[2]),
                 cpu_utilization |-> CollectorPct(c[1], c[2]),
                 memory_utilization |-> Num(75000),
                 disk_utilization |-> Num(50000)]
    IN [f \in (DOMAIN full) \ (IF withCpu THEN {} ELSE {"cpu_utilization"}) |-> full[f]]

AllPairs == {<<n, ForecastMetrics[i]>> : n \in {"a", "b"}, i \in 1..Len(ForecastMetrics)}

InitForecast ==
    /\ pc = "idle"
    /\ \/ store = NoStore
       \/ \E ac \in {<<0, 8>>, <<7, 8>>}, nb \in BRows, withCpu \in BOOLEAN :
             store = [state |-> "ok",
                      rows |-> [i \in 1..MinNodeRows |-> FRow("a", i, ac, withCpu)]
                               \o [i \in 1..nb |-> FRow("b", i, <<4, 8>>, withCpu)]]
    /\ \E x \in LibBehaviours, y \in LibBehaviours, z \in LibBehaviours :
          prophet = [p \in AllPairs |->
                        IF p = <<"a", "cpu_utilization">> THEN x
                        ELSE IF p = <<"a", "memory_utilization">> THEN y
                        ELSE IF p = <<"b", "cpu_utilization">> THEN z
                        ELSE Steady]
    /\ clock = MinNodeRows
    /\ df = <<>>
    /\ derived = NoResult
    /\ node_summary = <<>>
    /\ capacity_analysis = <<>>
    /\ anomalies = <<>>
    /\ trends = <<>>
    /\ forecasts = <<>>
    /\ current_time = 0
    /\ recommendations = <<>>
    /\ stamp = 0
    /\ analysis_dir = {}
    /\ result = "none"
    /\ run = 0
    /\ completed = {}
    /\ prophet_data = <<>>
    /\ history = <<>>
    /\ forecasts_dir = {}
    /\ StoreIdle
    /\ SchedIdle

NextForecast ==
    \/ StartForecasting
    \/ ForecasterLoadMetrics
    \/ GenerateAllForecasts
    \/ CreateForecastVisualizations
    \/ ForecastTick
    \/ RunGenerateCapacityRecommendations
    \/ SaveForecasts

SpecForecast == InitForecast /\ [][NextForecast]_vars

ForecastTypeOK ==
    /\ result \in {"none", "running", "True", "False"}
    /\ Len(history) <= Cardinality(Runs)

(* The claims' own reading of the forecasting run *)

\* generate_all_forecasts has run over a loaded window
Forecasted == pc \in {"f_visualize", "f_recommend", "f_save", "returned"} /\ df # <<>>

RowsOfPair(p) ==
    {i \in 1..Len(forecasts) : forecasts[i].node = p[1] /\ forecasts[i].metric = p[2]}

SamplesOf(n) == {i \in 1..Len(df) : df[i].node = n}

\* the pair has enough samples and the library fits and predicts its series
PairSucceeds(p) == Cardinality(SamplesOf(p[1])) >= MinNodeRows /\ ~prophet[p].raises

\* C16: after generate_all_forecasts, a pair that is skipped or whose fit raises
\* has no rows in the combined table, and every other pair has all its rows
\* there (one per prepared sample plus one per forecast period), whatever
\* happened to the pairs before it.
FailuresIsolatedPerPair ==
    Forecasted =>
        \A p \in AllPairs :
            Cardinality(RowsOfPair(p)) =
                IF PairSucceeds(p) THEN Cardinality(SamplesOf(p[1])) + Periods ELSE 0

\* the first pair of the loop raised, a later pair of the same node and a pair
\* of the next node have their rows, and a skipped node did not stop the loop
IsolationWitness ==
    /\ Forecasted
    /\ prophet[<<"a", "cpu_utilization">>].raises
    /\ RowsOfPair(<<"a", "memory_utilization">>) # {}
    /\ prophet[<<"b", "cpu_utilization">>].raises
    /\ RowsOfPair(<<"b", "disk_utilization">>) # {}

SkippedWitness ==
    /\ Forecasted
    /\ Cardinality(SamplesOf("b")) < MinNodeRows
    /\ forecasts # <<>>

\* the actuals of the pair in the loaded window
ActualsOf(p) == {df[i][p[2]] : i \in SamplesOf(p[1])}

\* C18: when an actual of a pair's series is 0, the MAPE on the pair's forecast
\* rows is a finite number, never infinite and never NaN.
MapeGuarded ==
    Forecasted =>
        \A i \in 1..Len(forecasts) :
            Num(0) \in ActualsOf(<<forecasts[i].node, forecasts[i].metric>>)
                => forecasts[i].mape.k = "num"

\* C20: the recommendations of every two completed forecasting runs over the
\* same window are the same, whatever the wall clock read in each run.
RecommendationsOfWindowAlone ==
    \A i \in DOMAIN history, j \in DOMAIN history : history[i] = history[j]

----------------------------------------------------------------------------
(* OpenStackCollector.save_metrics and the store under interleaved runs *)

RetentionDays == 30
SecondsPerDay == 86400

\* to_csv(csv_path, index=False) on a new file: the earlier rows are gone
WriteCsv(st, batch) == [state |-> "ok", rows |-> batch]

\* df.to_csv(csv_path, mode='a', header=False) when the file exists, a new
\* file with a header otherwise
AppendCsv(st, batch) ==
    IF st.state = "missing" THEN [state |-> "ok", rows |-> batch]
    ELSE [st EXCEPT !.rows = @ \o batch]

\* the collector's columns
StoreColumns == RawColumns \cup InstColumns \cup UtilColumns \cup {"instances"}

\* one row per hypervisor, stamped with the time of the collection
Batch(nodes, now, used) ==
    [i \in 1..Len(nodes) |-> RunRow(StoreColumns, nodes[i], now, <<used, 8>>, 50, 50)]

\* most collections followed
MaxBatches == 2

\* save_metrics, then cleanup_old_data of the collector: the batch is appended
\* to metrics.csv, written to metrics_<timestamp>.json, and the json files
\* older than the retention are removed
SaveMetrics ==
    /\ Len(saved) < MaxBatches + 1
    /\ \E nodes \in {<<"a">>, <<"a", "b">>} :
          LET batch == Batch(nodes, clock, 7)
          IN /\ store' = AppendCsv(store, batch)
             /\ saved' = Append(saved, batch)
    /\ snapshots' = {s \in snapshots \cup {clock} :
                        s + RetentionDays * SecondsPerDay >= clock}
    /\ UNCHANGED <<pc, df, derived, node_summary, capacity_analysis, anomalies, trends,
                   forecasts, current_time, recommendations,
                   clock, stamp, analysis_dir, result, run, completed>>
    /\ UNCHANGED forecastVars
    /\ UNCHANGED schedVars

----------------------------------------------------------------------------
(* Specification SpecStore: collections interleaved with analysis and forecasting runs *)

\* the store holds nothing, or one sample less than a forecast needs
StoredBefore == {0, MinNodeRows - 1}

InitStore ==
    /\ pc = "idle"
    /\ \E k \in StoredBefore :
          /\ store = IF k = 0 THEN NoStore
                     ELSE [state |-> "ok",
                           rows |-> [i \in 1..k |->
                                       RunRow(StoreColumns, "a", i, <<5, 8>>, 50, 50)]]
          /\ clock = k
    /\ prophet = [p \in AllPairs |-> Steady]
    /\ df = <<>>
    /\ derived = NoResult
    /\ node_summary = NotComputed
    /\ trends = NotComputed
    /\ capacity_analysis = NotComputed
    /\ anomalies = NotComputed
    /\ forecasts = <<>>
    /\ current_time = 0
    /\ recommendations = <<>>
    /\ stamp = 0
    /\ analysis_dir = {}
    /\ result = "none"
    /\ run = 0
    /\ completed = {}
    /\ prophet_data = <<>>
    /\ history = <<>>
    /\ forecasts_dir = {}
    /\ StoreIdle
    /\ SchedIdle

NextStore ==
    \/ SaveMetrics
    \/ StartRun
    \/ LoadMetrics
    \/ RunCalculateUtilizationMetrics
    \/ RunGenerateNodeSummary
    \/ RunGenerateTimeSeriesAnalysis
    \/ RunGenerateCapacityAnalysis
    \/ RunGenerateAnomalyDetection
    \/ Tick
    \/ SaveNodeSummary
    \/ SaveTrends
    \/ SaveCapacityAnalysis
    \/ SaveAnomalies
    \/ CreateSummaryReport
    \/ Abort
    \/ StartForecasting
    \/ ForecasterLoadMetrics
    \/ GenerateAllForecasts
    \/ CreateForecastVisualizations
    \/ ForecastTick
    \/ RunGenerateCapacityRecommendations
    \/ SaveForecasts

SpecStore == InitStore /\ [][NextStore]_vars

(* The claims' own reading of the store *)

RECURSIVE Flatten(_)
Flatten(batches) ==
    IF batches = <<>> THEN <<>> ELSE Head(batches) \o Flatten(Tail(batches))

\* C21: whatever runs and collections have happened, the store holds the saved
\* batches one after the other, in the order they were saved, and nothing else.
StoreIsConcatenationOfBatches == store.rows = Flatten(saved)

\* two collections were saved on top of an existing store, and an analysis run
\* and a forecasting run have both written their artifacts
StoreWitness ==
    /\ Len(saved) = MaxBatches + 1
    /\ analysis_dir # {}
    /\ forecasts_dir # {}
    /\ pc = "returned"

----------------------------------------------------------------------------
(* The claims' own reading of the trend map, over the runs of SpecRun *)

TrendsComputed == trends.status # "none"

\* the hours in which node n has a sample
SampledHours(n) ==
    {derived.rows[i].timestamp \div MinutesPerHour :
        i \in {j \in 1..Len(derived.rows) : derived.rows[j].node = n}}

WindowNodes == {derived.rows[i].node : i \in 1..Len(derived.rows)}

\* C22: once the trends are computed, a node has an entry in the trend map
\* iff its samples fall in at least 2 hourly buckets.
TrendEntryIffTwoBuckets ==
    TrendsComputed =>
        \A n \in WindowNodes :
            n \in DOMAIN trends.value <=> Cardinality(SampledHours(n)) >= 2

\* some utilization cell of the window is infinite
InfiniteCell ==
    \E i \in 1..Len(derived.rows) :
        \E c \in UtilColumns : IsInf(derived.rows[i][c])

\* the same on windows whose utilization cells are all finite or missing
TrendEntryOnFiniteWindows == InfiniteCell \/ TrendEntryIffTwoBuckets

----------------------------------------------------------------------------
(* Specification SpecTrend: a window through generate_time_series_analysis *)

\* most hours between a node's first and last sample
MaxBuckets == 4

\* cpu utilization of a sample, in percent of 100 vCPUs
TrendPcts == {50, 51, 52, 53}

TrendRow(n, ts, pct) == RunRow(StoreColumns, n, ts, <<pct, 100>>, 50, 50)

\* node a: one sample at the start of every hour that is present, and with
\* `twice` a second sample 20 minutes into the first hour; node b: one sample
TrendWindow(n, present, pcts, twice) ==
    LET hours == SelectSeq([h \in 1..n |-> h], LAMBDA h : present[h])
    IN [i \in 1..Len(hours) |->
           TrendRow("a", (hours[i] - 1) * MinutesPerHour, pcts[hours[i]])]
       \o (IF twice THEN <<TrendRow("a", 20, pcts[1] + 2)>> ELSE <<>>)
       \o <<TrendRow("b", 0, 50)>>

InitTrend ==
    /\ pc = "derived"
    /\ \E n \in 2..MaxBuckets :
       \E present \in [1..n -> BOOLEAN], pcts \in [1..n -> TrendPcts], twice \in BOOLEAN :
          /\ present[1] /\ present[n]
          /\ df = TrendWindow(n, present, pcts, twice)
    /\ derived = NoResult
    /\ node_summary = NotComputed
    /\ trends = NotComputed
    /\ capacity_analysis = NotComputed
    /\ anomalies = NotComputed
    /\ forecasts = <<>>
    /\ current_time = 0
    /\ recommendations = <<>>
    /\ store = NoStore
    /\ clock = 0
    /\ stamp = 0
    /\ analysis_dir = {}
    /\ result = "none"
    /\ run = 0
    /\ completed = {}
    /\ ForecastIdle
    /\ StoreIdle
    /\ SchedIdle

GenerateTimeSeriesAnalysis ==
    /\ pc = "derived"
    /\ \E raises \in BOOLEAN : trends' = TryTimeSeriesAnalysis(df, raises)
    /\ pc' = "trended"
    /\ UNCHANGED <<df, derived, node_summary, capacity_analysis, anomalies,
                   forecasts, current_time, recommendations,
                   store, clock, stamp, analysis_dir, result, run, completed>>
    /\ UNCHANGED forecastVars
    /\ UNCHANGED storeVars
    /\ UNCHANGED schedVars

NextTrend == GenerateTimeSeriesAnalysis

SpecTrend == InitTrend /\ [][NextTrend]_vars

(* The claims' own reading of the trend of node a *)

Trended == pc = "trended"

SamplesOfA == {i \in 1..Len(df) : df[i].node = "a"}

\* the hours, counted from the first, in which node a has a sample
HoursOfA == {df[i].timestamp \div MinutesPerHour : i \in SamplesOfA}

RECURSIVE SumOfSet(_, _)
\* the sum of f over the set S
SumOfSet(S, f) ==
    IF S = {} THEN 0
    ELSE LET x == CHOOSE y \in S : TRUE IN f[x] + SumOfSet(S \ {x}, f)

\* mean cpu utilization of the samples of hour h
MeanOfHour(h) ==
    LET inHour == {i \in SamplesOfA : df[i].timestamp \div MinutesPerHour = h}
    IN SumOfSet(inHour, [i \in inHour |-> df[i].cpu_utilization.v]) \div Cardinality(inHour)

\* least-squares slope of the bucket means against the hour, from the
\* deviations from the means (scaled by the number of buckets)
OlsSlope ==
    LET m == Cardinality(HoursOfA)
        devX == [h \in HoursOfA |-> m * h - SumOfSet(HoursOfA, [g \in HoursOfA |-> g])]
        devY == [h \in HoursOfA |->
                    m * MeanOfHour(h)
                        - SumOfSet(HoursOfA, [g \in HoursOfA |-> MeanOfHour(g)])]
    IN SumOfSet(HoursOfA, [h \in HoursOfA |-> devX[h] * devY[h]])
           \div SumOfSet(HoursOfA, [h \in HoursOfA |-> devX[h] * devX[h]])

\* C23: the cpu trend of node a is the least-squares slope of its hourly
\* bucket means against the bucket index, and data_points is the number of
\* its buckets.
TrendIsLeastSquaresSlope ==
    Trended =>
        /\ trends.value["a"].cpu_trend = Num(OlsSlope)
        /\ trends.value["a"].data_points = Cardinality(HoursOfA)

\* every hour from the first sample to the last has a sample
NoEmptyHour == \A h \in 0..(MaxBuckets + 1) :
                  (\E g \in HoursOfA : g >= h) => h \in HoursOfA

\* the same on windows without an empty hour
TrendOnConsecutiveBuckets == NoEmptyHour => TrendIsLeastSquaresSlope

\* the bucket means rise by exactly one percent per bucket
RisesByOne ==
    /\ NoEmptyHour
    /\ \A h \in HoursOfA : h > 0 => MeanOfHour(h) = MeanOfHour(h - 1) + Scale

\* a series rising by one per bucket has slope 1 and one data point per bucket
LinearSeriesSlopeOne ==
    (Trended /\ RisesByOne) =>
        /\ trends.value["a"].cpu_trend = Num(Scale)
        /\ trends.value["a"].data_points = Cardinality(HoursOfA)

LinearSeriesWitness ==
    /\ Trended
    /\ RisesByOne
    /\ Cardinality(HoursOfA) = MaxBuckets

----------------------------------------------------------------------------
(* The claims' own reading of the forecast table, over the runs of SpecForecast *)

\* the time of the last sample of node n in the loaded window
LastSampleOf(n) ==
    CHOOSE t \in {df[i].timestamp : i \in SamplesOf(n)} :
        \A i \in SamplesOf(n) : df[i].timestamp <= t

PairsInTable == {<<forecasts[i].node, forecasts[i].metric>> : i \in 1..Len(forecasts)}

\* C24: every pair of the forecast table has exactly `Periods` rows, at
\* distinct timestamps, all after the last sample of the pair's node.
OneRowPerFutureTimestamp ==
    Forecasted =>
        \A p \in PairsInTable :
            /\ Cardinality(RowsOfPair(p)) = Periods
            /\ \A i \in RowsOfPair(p) : forecasts[i].timestamp > LastSampleOf(p[1])
            /\ \A i \in RowsOfPair(p), j \in RowsOfPair(p) :
                  forecasts[i].timestamp = forecasts[j].timestamp => i = j

\* the rows after the last sample are `Periods` in number, one per timestamp
FutureRowsArePeriods ==
    Forecasted =>
        \A p \in PairsInTable :
            LET future == {i \in RowsOfPair(p) :
                              forecasts[i].timestamp > LastSampleOf(p[1])}
            IN /\ Cardinality(future) = Periods
               /\ \A i \in future, j \in future :
                     forecasts[i].timestamp = forecasts[j].timestamp => i = j

----------------------------------------------------------------------------
(* The claims' own reading of load_metrics and the utilization columns, over
   the runs of SpecRun *)

\* load_metrics has returned a table and nothing else has run on it
Loaded == pc = "calculate"

\* C25: the table load_metrics returns has the three utilization columns and
\* one row per stored row, whatever columns the store carries.
LoadedHasUtilizationColumns ==
    Loaded =>
        /\ UtilColumns \subseteq Columns(df)
        /\ Len(df) = Len(store.rows)

\* the table has the rows and the columns of the store
LoadedIsTheStore == Loaded => df = store.rows

\* calculate_utilization_metrics has been called on the loaded table
Calculated == derived.status # "none"

Within(r, used, total) ==
    /\ IsNum(r[used]) /\ IsNum(r[total])
    /\ r[total].v > 0
    /\ 0 <= r[used].v /\ r[used].v <= r[total].v

\* every loaded sample has total > 0 and 0 <= used <= total for the three resources
ValidSamples ==
    \A i \in 1..Len(df) :
        /\ Within(df[i], "vcpus_used", "vcpus_total")
        /\ Within(df[i], "memory_used_mb", "memory_total_mb")
        /\ Within(df[i], "disk_used_gb", "disk_total_gb")

\* C26: on a stream of valid samples, with or without the per-instance fields,
\* calculate_utilization_metrics completes and the three utilizations of every
\* row are within [0, 100].
ValidSamplesGiveUtilizationInRange ==
    (Calculated /\ ValidSamples) =>
        /\ derived.status = "ok"
        /\ \A i \in 1..Len(derived.rows) :
              \A c \in UtilColumns :
                  /\ IsNum(derived.rows[i][c])
                  /\ 0 <= derived.rows[i][c].v
                  /\ derived.rows[i][c].v <= 100 * Scale

\* the same on streams that carry the per-instance fields
InRangeWithInstanceFields ==
    InstColumns \subseteq Columns(df) => ValidSamplesGiveUtilizationInRange

\* a valid stream without utilization columns went through the calculator
InRangeReached ==
    /\ Calculated /\ ValidSamples
    /\ derived.status = "ok"
    /\ ~(UtilColumns \subseteq Columns(df))

----------------------------------------------------------------------------
(* MonitoringScheduler: run_script, run_initial_tasks, start_scheduler *)

\* the jobs of setup_schedule, in the order they are registered
Jobs == <<"collect_metrics", "analyze_metrics", "forecast_usage", "cleanup_old_data">>

\* the jobs that run a script in a child process
Scripts == {"collect_metrics", "analyze_metrics", "forecast_usage"}

\* run_initial_tasks: collection, analysis, forecasting
InitialTasks == <<"collect_metrics", "analyze_metrics", "forecast_usage">>

JobSet == {Jobs[i] : i \in 1..Len(Jobs)}

MainLoop == {"sleep", "pending"}

\* the scheduler breaks off when a task does not succeed
AfterTaskStopOnFailure(position, outcome) ==
    IF outcome \in {"exit0", "ok"} THEN position ELSE "crashed"

\* run_script and cleanup_old_data turn every failure into a return value of
\* False, which run_initial_tasks only logs and the schedule ignores
AfterTask(position, outcome) == position

\* the child outlives the timeout
TimeoutLeavesChild(children, task) == children

\* subprocess.run(..., timeout=300): on TimeoutExpired the child is killed and
\* waited for before the exception reaches run_script
AfterTimeout(children, task) == children \ {task}

\* the scheduler enters run_script (or cleanup_old_data): a child is started,
\* unless subprocess.run raises before there is one
Launch(task) ==
    /\ waiting' = task
    /\ \E spawned \in BOOLEAN :
          /\ task \notin Scripts => spawned
          /\ running' = IF spawned THEN running \cup {task} ELSE running
    /\ UNCHANGED <<sched_pc, due, ended>>

\* the task the scheduler is blocked on ends: a job of run_pending is
\* rescheduled once its function has returned
TaskEnds(outcome, children) ==
    /\ running' = children
    /\ ended' = [task |-> waiting, outcome |-> outcome]
    /\ waiting' = ""
    /\ due' = IF sched_pc = "pending" THEN due \ {waiting} ELSE due
    /\ sched_pc' = AfterTask(sched_pc, outcome)
    /\ UNCHANGED <<queue, initial>>
    /\ UNCHANGED engineVars

StartInitialTask ==
    /\ sched_pc = "initial"
    /\ waiting = ""
    /\ Len(initial) < Len(InitialTasks)
    /\ initial' = Append(initial, InitialTasks[Len(initial) + 1])
    /\ Launch(InitialTasks[Len(initial) + 1])
    /\ UNCHANGED queue
    /\ UNCHANGED engineVars

\* "Initial tasks completed": the main loop starts
FinishInitial ==
    /\ sched_pc = "initial"
    /\ waiting = ""
    /\ Len(initial) = Len(InitialTasks)
    /\ sched_pc' = "sleep"
    /\ UNCHANGED <<running, waiting, due, queue, initial, ended>>
    /\ UNCHANGED engineVars

\* the child returns with code 0 or with another code
ChildExits ==
    /\ waiting \in Scripts
    /\ waiting \in running
    /\ \E outcome \in {"exit0", "exit1"} : TaskEnds(outcome, running \ {waiting})

\* subprocess.TimeoutExpired
ChildTimesOut ==
    /\ waiting \in Scripts
    /\ waiting \in running
    /\ TaskEnds("timeout", AfterTimeout(running, waiting))

\* except Exception in run_script: no child was started
RunScriptRaises ==
    /\ waiting \in Scripts
    /\ waiting \notin running
    /\ TaskEnds("error", running)

\* cleanup_old_data of the scheduler returns True, or False on an exception
CleanupReturns ==
    /\ waiting = "cleanup_old_data"
    /\ \E outcome \in {"ok", "error"} : TaskEnds(outcome, running \ {waiting})

\* time passes: the next run of job j has come
BecomeDue(j) ==
    /\ sched_pc \in {"initial"} \cup MainLoop
    /\ j \notin due
    /\ due' = due \cup {j}
    /\ UNCHANGED <<sched_pc, running, waiting, queue, initial, ended>>
    /\ UNCHANGED engineVars

\* schedule.run_pending(): the jobs that are due, to be run one after the other
RunPending ==
    /\ sched_pc = "sleep"
    /\ due # {}
    /\ queue' = SelectSeq(Jobs, LAMBDA j : j \in due)
    /\ sched_pc' = "pending"
    /\ UNCHANGED <<running, waiting, due, initial, ended>>
    /\ UNCHANGED engineVars

StartJob ==
    /\ sched_pc = "pending"
    /\ waiting = ""
    /\ queue # <<>>
    /\ queue' = Tail(queue)
    /\ Launch(Head(queue))
    /\ UNCHANGED initial
    /\ UNCHANGED engineVars

\* run_pending returns: time.sleep(60)
EndPending ==
    /\ sched_pc = "pending"
    /\ waiting = ""
    /\ queue = <<>>
    /\ sched_pc' = "sleep"
    /\ UNCHANGED <<running, waiting, due, queue, initial, ended>>
    /\ UNCHANGED engineVars

\* KeyboardInterrupt: subprocess.run kills the child it is waiting for
StopScheduler ==
    /\ sched_pc \in {"initial"} \cup MainLoop
    /\ sched_pc' = "stopped"
    /\ running' = running \ {waiting}
    /\ waiting' = ""
    /\ UNCHANGED <<due, queue, initial, ended>>
    /\ UNCHANGED engineVars

----------------------------------------------------------------------------
(* Specification SpecScheduler: start_scheduler from run_initial_tasks on *)

InitScheduler ==
    /\ sched_pc = "initial"
    /\ running = {}
    /\ waiting = ""
    /\ due = {}
    /\ queue = <<>>
    /\ initial = <<>>
    /\ ended = NoTask
    /\ pc = "idle"
    /\ df = <<>>
    /\ derived = NoResult
    /\ node_summary = <<>>
    /\ capacity_analysis = <<>>
    /\ anomalies = <<>>
    /\ forecasts = <<>>
    /\ current_time = 0
    /\ recommendations = <<>>
    /\ ForecastIdle
    /\ store = NoStore
    /\ clock = 0
    /\ trends = <<>>
    /\ stamp = 0
    /\ analysis_dir = {}
    /\ result = "none"
    /\ run = 0
    /\ completed = {}
    /\ StoreIdle

NextScheduler ==
    \/ StartInitialTask
    \/ FinishInitial
    \/ ChildExits
    \/ ChildTimesOut
    \/ RunScriptRaises
    \/ CleanupReturns
    \/ \E j \in JobSet : BecomeDue(j)
    \/ RunPending
    \/ StartJob
    \/ EndPending
    \/ StopScheduler

SpecScheduler == InitScheduler /\ [][NextScheduler]_vars

\* the loop of start_scheduler goes on, a child ends or is ended by the
\* timeout, and the run time of every job comes again
SchedulerFairness ==
    /\ WF_vars(StartInitialTask)
    /\ WF_vars(FinishInitial)
    /\ WF_vars(ChildExits \/ ChildTimesOut \/ RunScriptRaises \/ CleanupReturns)
    /\ WF_vars(RunPending)
    /\ WF_vars(StartJob)
    /\ WF_vars(EndPending)
    /\ \A j \in JobSet : WF_vars(BecomeDue(j))

SpecSchedulerLive == SpecScheduler /\ SchedulerFairness

(* The claims' own reading of the scheduler *)

\* C27: at most one task executes at any time.
OneTaskAtATime == Cardinality(running) <= 1

\* a task executes, alone, after the one before it was ended by the timeout
AfterTimeoutWitness ==
    /\ ended.outcome = "timeout"
    /\ waiting # ""
    /\ waiting # ended.task
    /\ running = {waiting}

Failures == {"exit1", "timeout", "error"}

FailedInLoop == sched_pc \in MainLoop /\ ended.outcome \in Failures

Stopped == sched_pc = "stopped"

\* C28: the main loop is only entered with collection, analysis and
\* forecasting attempted in that order, it is entered unless the user stops
\* the scheduler, and after a failure in it every job is attempted again
\* unless the user stops the scheduler.
NoFailureStopsLaterTasks ==
    /\ [](sched_pc \in MainLoop => initial = InitialTasks)
    /\ <>(sched_pc \in MainLoop \/ Stopped)
    /\ \A j \in JobSet : FailedInLoop ~> (waiting = j \/ Stopped)

\* the initial collection failed, the main loop was entered all the same,
\* and a job runs after a failure of another in the loop
LaterTaskWitness ==
    /\ sched_pc = "pending"
    /\ initial = InitialTasks
    /\ ended.outcome \in Failures
    /\ waiting # ""
    /\ waiting # ended.task

----------------------------------------------------------------------------
(* The claims' own reading of the files of data/forecasts, over the runs of
   SpecForecast *)

FilesOf(kind) == {f \in forecasts_dir : f.kind = kind}

\* C29: every forecast table in data/forecasts has a recommendation list of
\* the same run under the same timestamp.
RecommendationsAccompanyForecasts ==
    \A f \in FilesOf("forecasts") :
        \E r \in FilesOf("recommendations") : r.stamp = f.stamp /\ r.run = f.run

\* the most recent file of a kind
Latest(kind) ==
    CHOOSE f \in FilesOf(kind) : \A g \in FilesOf(kind) : g.stamp <= f.stamp

\* the most recent recommendation list is of an older run than the most
\* recent forecast table
StaleRecommendations ==
    /\ FilesOf("forecasts") # {}
    /\ FilesOf("recommendations") # {}
    /\ Latest("recommendations").run < Latest("forecasts").run

\* a run that has recommendations saves them under the timestamp of its table
NonEmptyRecommendationsSaved ==
    (pc = "returned" /\ result = "True" /\ recommendations # <<>>) =>
        \E f \in FilesOf("forecasts"), r \in FilesOf("recommendations") :
            f.run = run /\ r.run = run /\ f.stamp = r.stamp

----------------------------------------------------------------------------
(* The claims' own reading of the position of an anomaly, over SpecAnomaly *)

\* the place of the sample of node n stamped ts among the node's samples, in
\* stored order
PositionOf(n, ts) ==
    Cardinality({i \in 1..Len(df) :
                    /\ df[i].node = n
                    /\ \E k \in i..Len(df) : df[k].node = n /\ df[k].timestamp = ts})

\* the number of samples in the rolling window of the sample at place p of a
\* node with N samples
WindowCount(p, N) == Min(p, Min(24, N))

SamplesOfNode(n) == Cardinality({i \in 1..Len(df) : df[i].node = n})

\* C30: no anomaly is reported among the first 5 samples of a node, and none
\* with severity High for a sample whose rolling window holds fewer than 11
\* samples.
NoEarlyAnomaly ==
    pc = "analysed" =>
        \A j \in 1..Len(anomalies) :
            LET a == anomalies[j]
                p == PositionOf(a.node, a.timestamp)
            IN /\ p > 5
               /\ a.severity = "High" => WindowCount(p, SamplesOfNode(a.node)) >= 11

\* the 6th sample of a node is reported, and so is an 11th with severity High
EarliestAnomalyWitness ==
    /\ pc = "analysed"
    /\ \/ \E j \in 1..Len(anomalies) :
             PositionOf(anomalies[j].node, anomalies[j].timestamp) = 6
       \/ \E j \in 1..Len(anomalies) :
             /\ PositionOf(anomalies[j].node, anomalies[j].timestamp) = 11
             /\ anomalies[j].severity = "High"

====
